---- MODULE Spec2Model ----
(***************************************************************************)
(* Model of kalibrate-hydrasdr's streaming core: the two-stage resampler   *)
(* (dsp_resampler), the ring buffer (circular_buffer) and the source       *)
(* adapter (iio_source) with its worker thread and blocking fill().        *)
(***************************************************************************)
EXTENDS Integers, Sequences, FiniteSets, TLC

(* ---------------- program constants (dsp_resampler.h) ---------------- *)
S1_DECIMATION == 5
S1_TAPS == 61
S2_INTERP == 13
S2_DECIM == 24
S2_TAPS_PER_PHASE == 57
S2_PHASES == 13
S2_TAPS_TOTAL == 729

(* ---------------- bounds of the resampler runs ---------------- *)
\* inputs fed since the last reset() in one explored run
MaxTotal == 240
\* length of the observation window of the ratio law: 5 * 24 inputs
WinLen == S1_DECIMATION * S2_DECIM
\* in_count values of process() calls
InCounts == {1, 5, 6, 17, 23, 40}
\* in_count values of the calls that split an observation window
WinCounts == {17, 23, 40}
\* out_cap values of process() calls
OutCaps == {0, 1, 14}
\* calls with out_cap = 0 are explored among the first inputs after a reset
ZeroCapMax == 10
\* a process() call run step by step starts in the state that EntryInputs
\* inputs after a reset() leave: every (s1_index, s2_phase_state) pair
EntryInputs == 0..(WinLen - 1)
\* in_count values of the calls run step by step
PCounts == {3, 120, 126, 139}
\* out_cap values of the calls run step by step; the largest is never reached
PCaps == {0, 2, 40}
\* in_count values over which one residue has to give the output count
LawCounts == 0..12

(* ---------------- program constants (iio_source.h) ---------------- *)
BATCH_SIZE == 32768
IIO_2_5MSPS_NATIVE_RATE == 2500000

\* samples of the driver buffer start() creates (iio_source.cc)
RXBUF_SAMPLES == 128 * 1024

(* ---------------- bounds of the source adapter runs ---------------- *)
\* capacity of the ring in samples (the source allocates 256 * 1024)
RingCap == 3
\* successful driver refills in one explored run
MaxRefills == 2
\* sample counts of the chunks the driver refill returns
Chunks == {5, 10}
\* sample counts of the chunks fed to the conversion loop run on its own: a
\* short chunk and the full driver buffer
ConvChunks == {100, RXBUF_SAMPLES}
\* num_samples values of fill() calls
FillSizes == {1, 3}
\* len values of the consumer's ring read() calls
ReadSizes == {1, 3}

(* ---------------- bounds of the runs with histories ---------------- *)
\* inputs pushed since reset(): enough for every polyphase branch to be used
\* on a full Stage-2 history
MaxHist == 420

(* ---------------- bounds of the worker batch runs ---------------- *)
\* driver chunks the worker takes in one explored run
MaxConvBatches == 2
\* loop iterations of process() taken in one step of the run
ConvStride == 32

(* ---------------- bounds of the oversized fill() runs ---------------- *)
\* a fill() request larger than the ring
BigFill == RingCap + 1
\* a driver chunk whose outputs more than fill the ring
BigChunk == 20

(* ---------------- bounds of the two-thread resampler runs ---------------- *)
\* inputs the worker pushes in one explored run
MaxRacePushes == 10
\* reset() calls of the tuning thread in one explored run
MaxRaceResets == 1

(* ---------------- bounds of the configuration runs ---------------- *)
\* gain values of the constructor and of set_gain() calls, in dB
Gains == {10, 40}
\* freq values of tune() calls, in MHz
Freqs == {935, 1805}

(* ---------------- bounds of the ring buffer runs ---------------- *)
\* m_buf_len: items the ring run on its own holds
RbLen == 3
\* m_item_size: bytes per item
RbItem == 2
\* operations on the ring in one explored run
MaxRbOps == 5
\* len values of write, read and purge calls; the largest exceeds the capacity
RbCounts == {1, 2, RbLen + 1}
\* the item counts a ring is constructed for
RbReqs == {RbLen - 1, RbLen}

VARIABLES
    rs,      \* dsp_resampler fields: s1_index, s1_head, s2_head, s2_phase_state
    nin,     \* inputs pushed into Stage 1 since the last reset()
    call,    \* the last process() call: in_count, out_cap, pushed, produced
    win      \* observation window: on, fed, out, s1_index0, phase0

VARIABLES
    life,              \* "new", "open", "failed", "closed", "aborted"
    m_dev,             \* iio_source::m_dev is non-null
    cb,                \* iio_source::cb is non-null
    ring,              \* the samples held by *cb, oldest first
    m_rxbuf,           \* iio_source::m_rxbuf is non-null
    streaming,         \* std::atomic<bool> streaming
    m_overflow_count,  \* std::atomic<unsigned int> m_overflow_count (far below 2^32 here)
    data_mutex,        \* owner of data_mutex: "free", "worker", "consumer"
    g_kal_exit_req,    \* the process-wide exit flag
    wpc,               \* worker thread: "none" (no thread), position, "done"
    wl,                \* worker locals of the current iteration
    cpc,               \* consumer task: "idle" or its position inside a call
    cl,                \* consumer locals of the current fill()
    spc,               \* stop(): "idle" or its position
    closing,           \* stop() was entered from close()
    refills,           \* successful refills so far
    prodSeq,           \* samples the resampler has produced so far
    got,               \* samples the consumer has read from the ring, in order
    lastFill,          \* the last fill() return still in force
    acct               \* drops decided / overruns delivered since start()/flush()

VARIABLES
    conv,      \* worker_thread's conversion loop run on its own: chunk, p, count
    proc,      \* one process() call run step by step
    rb,        \* a circular_buffer run on its own: cursors, storage, mode
    pre,       \* the resampler state the last reset() found
    tuneMark,  \* samples produced when the last tune() reset the resampler
    cfg,       \* open(), set_gain() and tune() run on their own: handles,
               \* settings, what the driver holds, the last call's return
    hist,      \* the resampler run on its own with its two history arrays
    race       \* process() and reset() run by two threads, access by access

rvars == <<rs, nin, call, win>>
avars == <<life, m_dev, cb, ring, m_rxbuf, streaming, m_overflow_count,
           data_mutex, g_kal_exit_req, wpc, wl, cpc, cl, spc, closing,
           refills, prodSeq, got, lastFill, acct>>
xvars == <<conv, proc, rb, pre, tuneMark, cfg, hist, race>>
vars == <<rs, nin, call, win, life, m_dev, cb, ring, m_rxbuf, streaming,
          m_overflow_count, data_mutex, g_kal_exit_req, wpc, wl, cpc, cl, spc,
          closing, refills, prodSeq, got, lastFill, acct,
          conv, proc, rb, pre, tuneMark, cfg, hist, race>>

(* ---------------- dsp_resampler ---------------- *)

\* reset() that leaves s2_phase_state at a stale value
ResetState_stalephase ==
    [s1_index |-> 0, s1_head |-> 0, s1_filled |-> 0,
     s2_head |-> 0, s2_phase_state |-> S2_INTERP - 2, s2_filled |-> 0]

\* reset(): the counters and heads, and the histories filled with zeros;
\* s1_filled / s2_filled count the history entries that hold a pushed sample
ResetState ==
    [s1_index |-> 0, s1_head |-> 0, s1_filled |-> 0,
     s2_head |-> 0, s2_phase_state |-> 0, s2_filled |-> 0]

RECURSIVE s2_emit_wrap12(_, _, _)
\* s2_emit with the phase wrap off by one (subtracts S2_INTERP - 1)
s2_emit_wrap12(st, out_cap, out_produced) ==
    IF st.s2_phase_state < S2_INTERP
    THEN IF out_produced >= out_cap
         THEN [st |-> st, out |-> out_produced]
         ELSE s2_emit_wrap12([st EXCEPT !.s2_phase_state = @ + S2_DECIM],
                             out_cap, out_produced + 1)
    ELSE [st |-> [st EXCEPT !.s2_phase_state = @ - (S2_INTERP - 1)],
          out |-> out_produced]

RECURSIVE s2_emit_wrap11(_, _, _)
\* s2_emit with the phase wrap two too small (subtracts S2_INTERP - 2)
s2_emit_wrap11(st, out_cap, out_produced) ==
    IF st.s2_phase_state < S2_INTERP
    THEN IF out_produced >= out_cap
         THEN [st |-> st, out |-> out_produced]
         ELSE s2_emit_wrap11([st EXCEPT !.s2_phase_state = @ + S2_DECIM],
                             out_cap, out_produced + 1)
    ELSE [st |-> [st EXCEPT !.s2_phase_state = @ - (S2_INTERP - 2)],
          out |-> out_produced]

RECURSIVE s2_emit_adv12(_, _, _)
\* s2_emit with the phase advanced by S2_INTERP - 1 per output
s2_emit_adv12(st, out_cap, out_produced) ==
    IF st.s2_phase_state < S2_INTERP
    THEN IF out_produced >= out_cap
         THEN [st |-> st, out |-> out_produced]
         ELSE s2_emit_adv12([st EXCEPT !.s2_phase_state = @ + S2_INTERP - 1],
                            out_cap, out_produced + 1)
    ELSE [st |-> [st EXCEPT !.s2_phase_state = @ - S2_INTERP],
          out |-> out_produced]

RECURSIVE s2_emit_skipwrap(_, _, _)
\* s2_emit that leaves out the phase wrap after it has emitted
s2_emit_skipwrap(st, out_cap, out_produced) ==
    IF st.s2_phase_state < S2_INTERP
    THEN IF out_produced >= out_cap
         THEN [st |-> st, out |-> out_produced]
         ELSE s2_emit_skipwrap([st EXCEPT !.s2_phase_state = @ + S2_DECIM],
                               out_cap, out_produced + 1)
    ELSE IF st.s2_phase_state >= S2_DECIM
    THEN [st |-> st, out |-> out_produced]
    ELSE [st |-> [st EXCEPT !.s2_phase_state = @ - S2_INTERP],
          out |-> out_produced]

RECURSIVE s2_emit_adv25(_, _, _)
\* s2_emit with the phase advanced by S2_DECIM + 1 per output
s2_emit_adv25(st, out_cap, out_produced) ==
    IF st.s2_phase_state < S2_INTERP
    THEN IF out_produced >= out_cap
         THEN [st |-> st, out |-> out_produced]
         ELSE s2_emit_adv25([st EXCEPT !.s2_phase_state = @ + S2_DECIM + 1],
                            out_cap, out_produced + 1)
    ELSE [st |-> [st EXCEPT !.s2_phase_state = @ - S2_INTERP],
          out |-> out_produced]

RECURSIVE s2_emit(_, _, _)
\* the emission loop of push_stage2 and the phase wrap after it
s2_emit(st, out_cap, out_produced) ==
    IF st.s2_phase_state < S2_INTERP
    THEN IF out_produced >= out_cap
         THEN [st |-> st, out |-> out_produced]
         ELSE s2_emit([st EXCEPT !.s2_phase_state = @ + S2_DECIM],
                      out_cap, out_produced + 1)
    ELSE [st |-> [st EXCEPT !.s2_phase_state = @ - S2_INTERP],
          out |-> out_produced]

push_stage2(st, out_cap, out_produced) ==
    LET h == IF st.s2_head + 1 >= S2_TAPS_PER_PHASE THEN 0 ELSE st.s2_head + 1
        f == IF st.s2_filled < S2_TAPS_PER_PHASE THEN st.s2_filled + 1
             ELSE st.s2_filled
    IN  s2_emit([st EXCEPT !.s2_head = h, !.s2_filled = f],
                out_cap, out_produced)

\* push_stage1 that restarts its counter at 1 after feeding Stage 2
push_stage1_idx1(st, out_cap, out_produced) ==
    LET h  == IF st.s1_head + 1 >= S1_TAPS THEN 0 ELSE st.s1_head + 1
        f  == IF st.s1_filled < S1_TAPS THEN st.s1_filled + 1 ELSE st.s1_filled
        ix == st.s1_index + 1
    IN  IF ix >= S1_DECIMATION
        THEN push_stage2([st EXCEPT !.s1_head = h, !.s1_filled = f,
                                    !.s1_index = 1],
                         out_cap, out_produced)
        ELSE [st |-> [st EXCEPT !.s1_head = h, !.s1_filled = f,
                                !.s1_index = ix],
              out |-> out_produced]

\* push_stage1 that passes every fourth input on to Stage 2
push_stage1_dec4(st, out_cap, out_produced) ==
    LET h  == IF st.s1_head + 1 >= S1_TAPS THEN 0 ELSE st.s1_head + 1
        f  == IF st.s1_filled < S1_TAPS THEN st.s1_filled + 1 ELSE st.s1_filled
        ix == st.s1_index + 1
    IN  IF ix >= S1_DECIMATION - 1
        THEN push_stage2([st EXCEPT !.s1_head = h, !.s1_filled = f,
                                    !.s1_index = 0],
                         out_cap, out_produced)
        ELSE [st |-> [st EXCEPT !.s1_head = h, !.s1_filled = f,
                                !.s1_index = ix],
              out |-> out_produced]

push_stage1(st, out_cap, out_produced) ==
    LET h  == IF st.s1_head + 1 >= S1_TAPS THEN 0 ELSE st.s1_head + 1
        f  == IF st.s1_filled < S1_TAPS THEN st.s1_filled + 1 ELSE st.s1_filled
        ix == st.s1_index + 1
    IN  IF ix >= S1_DECIMATION
        THEN push_stage2([st EXCEPT !.s1_head = h, !.s1_filled = f,
                                    !.s1_index = 0],
                         out_cap, out_produced)
        ELSE [st |-> [st EXCEPT !.s1_head = h, !.s1_filled = f,
                                !.s1_index = ix],
              out |-> out_produced]

RECURSIVE process_loop(_, _, _, _, _)
\* the for loop of process(): i is the loop index, pushed counts the inputs
\* handed to push_stage1
process_loop(st, i, in_count, out_cap, out_produced) ==
    IF i >= in_count
    THEN [st |-> st, produced |-> out_produced, pushed |-> i]
    ELSE LET r == push_stage1(st, out_cap, out_produced)
         IN  IF r.out >= out_cap
             THEN [st |-> r.st, produced |-> r.out, pushed |-> i + 1]
             ELSE process_loop(r.st, i + 1, in_count, out_cap, r.out)

process(st, in_count, out_cap) == process_loop(st, 0, in_count, out_cap, 0)

(* ---------------- resampler runs ---------------- *)

NoCall == [in_count |-> 0, out_cap |-> 0, pushed |-> 0, produced |-> 0]
NoWin == [on |-> FALSE, fed |-> 0, out |-> 0, s1_index0 |-> 0, phase0 |-> 0]

RInit ==
    /\ rs = ResetState
    /\ nin = 0
    /\ call = NoCall
    /\ win = NoWin

NoBatch == [produced |-> 0, first |-> 0, written |-> 0, appended |-> 0,
            counted |-> 0, path |-> "none"]
NoFillCall == [n |-> 0, ov |-> FALSE, sawAvail |-> FALSE, sawStop |-> FALSE,
               restarted |-> FALSE, lost |-> 0, wrote |-> FALSE]
NoFill == [valid |-> FALSE, n |-> 0, ret |-> 0, overruns |-> 0,
           sawAvail |-> FALSE, sawStop |-> FALSE,
           restarted |-> FALSE, lost |-> 0, wrote |-> FALSE]
NoAcct == [dropped |-> 0, delivered |-> 0]

\* iio_source::iio_source(): the state after construction
AInit ==
    /\ life = "new"
    /\ m_dev = FALSE
    /\ cb = FALSE
    /\ ring = << >>
    /\ m_rxbuf = FALSE
    /\ streaming = FALSE
    /\ m_overflow_count = 0
    /\ data_mutex = "free"
    /\ g_kal_exit_req = FALSE
    /\ wpc = "none"
    /\ wl = NoBatch
    /\ cpc = "idle"
    /\ cl = NoFillCall
    /\ spc = "idle"
    /\ closing = FALSE
    /\ refills = 0
    /\ prodSeq = 0
    /\ got = << >>
    /\ lastFill = NoFill
    /\ acct = NoAcct

NoConv == [chunk |-> 0, p |-> 0, count |-> 0, pc |-> "idle",
           st |-> ResetState, i |-> 0, produced |-> 0, batches |-> 0]
NoProc == [pc |-> "idle", st0 |-> ResetState, st |-> ResetState, i |-> 0,
           in_count |-> 0, out_cap |-> 0, out_produced |-> 0, slots |-> << >>,
           pushed |-> 0, full_at |-> -1, s2log |-> << >>]
NoRb == [pc |-> "none", m_r |-> 0, m_w |-> 0, m_overwrite |-> FALSE,
         store |-> [j \in 0..(RbLen - 1) |-> 0], offered |-> 0,
         accepted |-> << >>, returned |-> << >>, peeked |-> << >>,
         plain |-> TRUE, ops |-> 0, req |-> 0, wonly |-> TRUE,
         last |-> [op |-> "none", n |-> 0, ret |-> 0, before |-> << >>]]
NoPre == [valid |-> FALSE, st |-> ResetState]
NoCfgCall == [op |-> "none", rejected |-> {}, ret |-> 0]
\* no iio_source constructed; hw_* is what the driver holds (0: never set)
NoCfg == [pc |-> "none", m_ctx |-> FALSE, m_dev |-> FALSE, m_phy |-> FALSE,
          m_rx0 |-> FALSE, cb |-> FALSE, m_gain |-> 0, m_center_freq |-> 0,
          hw_rate |-> 0, hw_manual |-> FALSE, hw_gain |-> 0, hw_lo |-> 0,
          last |-> NoCfgCall]
\* the resampler with its histories, as reset() leaves it: every history
\* entry zero (samples are numbered from 1, 0 is the zero sample)
ResetHist ==
    [s1_index |-> 0, s1_head |-> 0,
     s1_history |-> [i \in 0..(2 * S1_TAPS - 1) |-> 0],
     s2_head |-> 0, s2_phase_state |-> 0,
     s2_history |-> [i \in 0..(2 * S2_TAPS_PER_PHASE - 1) |-> 0],
     n |-> 0, m |-> 0, s1_dot |-> << >>, s1_at |-> 0,
     s2_dot |-> << >>, s2_at |-> 0, s2_branch |-> 0, emits |-> << >>,
     s1_w |-> 0, s1_win |-> 0, s2_w |-> 0, s2_win |-> 0]
NoTune == -1
\* the resampler after construction, its worker between two push_stage1
\* calls (pc), no reset() in progress (tpc = 0)
NoRace == [pc |-> "idle", tpc |-> 0, s1_index |-> 0, s1_head |-> 0,
           s2_head |-> 0, s2_phase_state |-> 0, reg |-> 0, pushes |-> 0,
           resets |-> 0, branch |-> 0, w1 |-> 0, w2 |-> 0,
           win1 |-> 0, win2 |-> 0]

\* nothing runs on its own, no reset() and no tune() has happened
XInit ==
    /\ conv = NoConv
    /\ proc = NoProc
    /\ rb = NoRb
    /\ pre = NoPre
    /\ tuneMark = NoTune
    /\ cfg = NoCfg
    /\ hist = ResetHist
    /\ race = NoRace

Init == RInit /\ AInit /\ XInit

\* one process(in, in_count, out, out_cap) call
Process(in_count, out_cap) ==
    /\ nin + in_count <= MaxTotal
    /\ out_cap = 0 => nin < ZeroCapMax
    /\ win.on => in_count \in WinCounts /\ win.fed + in_count <= WinLen
    /\ LET r == process(rs, in_count, out_cap)
       IN  /\ rs' = r.st
           /\ nin' = nin + r.pushed
           /\ call' = [in_count |-> in_count, out_cap |-> out_cap,
                       pushed |-> r.pushed, produced |-> r.produced]
           /\ win' = IF ~win.on THEN NoWin
                     ELSE IF r.produced >= out_cap THEN NoWin
                     ELSE [win EXCEPT !.fed = @ + in_count,
                                      !.out = @ + r.produced]
    /\ pre' = NoPre
    /\ UNCHANGED <<conv, proc, rb, tuneMark, cfg, hist, race>>
    /\ UNCHANGED avars

\* reset(), also on a resampler that was just reset
Reset ==
    /\ rs' = ResetState
    /\ nin' = 0
    /\ call' = NoCall
    /\ win' = NoWin
    /\ pre' = [valid |-> TRUE, st |-> rs]
    /\ UNCHANGED <<conv, proc, rb, tuneMark, cfg, hist, race>>
    /\ UNCHANGED avars

\* start observing the next WinLen inputs from the current state
Mark ==
    /\ ~win.on \/ win.fed = WinLen
    /\ nin + WinLen <= MaxTotal
    /\ win' = [on |-> TRUE, fed |-> 0, out |-> 0,
               s1_index0 |-> rs.s1_index, phase0 |-> rs.s2_phase_state]
    /\ call' = NoCall
    /\ UNCHANGED <<rs, nin>>
    /\ UNCHANGED avars
    /\ UNCHANGED xvars

RNext ==
    \/ \E n \in InCounts, c \in OutCaps : Process(n, c)
    \/ Reset
    \/ Mark

SpecR == Init /\ [][RNext]_vars

(* ---------------- one process() call, one loop iteration per step ------- *)

\* the k-th of the three process() calls that feed n0 inputs in turn
EntryCall(n0, k) ==
    LET rest == n0 - k * (WinLen \div 3)
    IN  IF rest <= 0 THEN 0
        ELSE IF rest >= WinLen \div 3 THEN WinLen \div 3 ELSE rest

\* the resampler state n0 inputs after a reset(), fed by three process()
\* calls whose output capacity is never reached
EntryState(n0) ==
    LET a == process(ResetState, EntryCall(n0, 0), BATCH_SIZE).st
        b == process(a, EntryCall(n0, 1), BATCH_SIZE).st
    IN  process(b, EntryCall(n0, 2), BATCH_SIZE).st

\* size_t out_produced = 0; i = 0
ProcEntry(st, in_count, out_cap) ==
    [NoProc EXCEPT !.pc = "loop", !.st0 = st, !.st = st,
                   !.in_count = in_count, !.out_cap = out_cap]

\* a process() call is about to run its loop on a state reachable between calls
InitP ==
    /\ RInit /\ AInit
    /\ conv = NoConv /\ rb = NoRb /\ pre = NoPre /\ tuneMark = NoTune
    /\ cfg = NoCfg /\ hist = ResetHist /\ race = NoRace
    /\ proc \in {ProcEntry(EntryState(n0), n, c) :
                     n0 \in EntryInputs, n \in PCounts, c \in PCaps}

\* push_stage1 hands a sample to Stage 2 when its counter reaches
\* S1_DECIMATION
feeds_stage2(st) == st.s1_index + 1 >= S1_DECIMATION

\* the log of the Stage-2 inputs of the call, one entry per input: the outputs
\* it gave and whether there was room for an output when it arrived
s2_logged(log, st, out_cap, before, after) ==
    IF feeds_stage2(st)
    THEN Append(log, [out |-> after - before, room |-> before < out_cap])
    ELSE log

\* the slots written with a pre-increment of out_produced
emit_slots_preinc(before, after) == [k \in 1..(after - before) |-> before + k]

\* out_buffer[out_produced++] = ...: the slots written while out_produced goes
\* from before to after
emit_slots(before, after) == [k \in 1..(after - before) |-> before + k - 1]

\* a loop iteration without the break on a full output
PStep_nobreak ==
    /\ proc.pc = "loop"
    /\ proc.i < proc.in_count
    /\ LET r == push_stage1(proc.st, proc.out_cap, proc.out_produced)
       IN  proc' = [proc EXCEPT
                      !.st = r.st,
                      !.out_produced = r.out,
                      !.slots = @ \o emit_slots(proc.out_produced, r.out),
                      !.s2log = s2_logged(@, proc.st, proc.out_cap,
                                          proc.out_produced, r.out),
                      !.i = @ + 1,
                      !.full_at = IF @ = -1 /\ r.out >= proc.out_cap
                                  THEN proc.i ELSE @]
    /\ UNCHANGED <<conv, rb, pre, tuneMark, cfg, hist, race>>
    /\ UNCHANGED rvars
    /\ UNCHANGED avars

\* one iteration of the for loop: push_stage1(in[i], ...), then the break if
\* out_produced >= out_cap
PStep ==
    /\ proc.pc = "loop"
    /\ proc.i < proc.in_count
    /\ LET r == push_stage1(proc.st, proc.out_cap, proc.out_produced)
       IN  proc' = IF r.out >= proc.out_cap
                   THEN [proc EXCEPT
                           !.st = r.st,
                           !.out_produced = r.out,
                           !.slots = @ \o emit_slots(proc.out_produced, r.out),
                           !.s2log = s2_logged(@, proc.st, proc.out_cap,
                                               proc.out_produced, r.out),
                           !.pc = "done",
                           !.pushed = proc.i + 1,
                           !.full_at = proc.i]
                   ELSE [proc EXCEPT
                           !.st = r.st,
                           !.out_produced = r.out,
                           !.slots = @ \o emit_slots(proc.out_produced, r.out),
                           !.s2log = s2_logged(@, proc.st, proc.out_cap,
                                               proc.out_produced, r.out),
                           !.i = @ + 1]
    /\ UNCHANGED <<conv, rb, pre, tuneMark, cfg, hist, race>>
    /\ UNCHANGED rvars
    /\ UNCHANGED avars

\* i reaches in_count: return out_produced
PExit ==
    /\ proc.pc = "loop"
    /\ proc.i >= proc.in_count
    /\ proc' = [proc EXCEPT !.pc = "done", !.pushed = proc.i]
    /\ UNCHANGED <<conv, rb, pre, tuneMark, cfg, hist, race>>
    /\ UNCHANGED rvars
    /\ UNCHANGED avars

PNext == PStep \/ PExit

SpecP == InitP /\ [][PNext]_vars

(* ---------------- circular_buffer (non-overwrite mode) ---------------- *)

data_available(r) == Len(r)
space_available(r) == RingCap - Len(r)

\* write(s, len): appends the first min(len, space_available) items
cb_write(r, items) ==
    LET k == IF Len(items) <= space_available(r) THEN Len(items)
             ELSE space_available(r)
    IN  [ring |-> r \o SubSeq(items, 1, k), written |-> k]

\* read(s, len): removes the oldest min(len, data_available) items
cb_read(r, len) ==
    LET k == IF len <= data_available(r) THEN len ELSE data_available(r)
    IN  [ring |-> SubSeq(r, k + 1, Len(r)), items |-> SubSeq(r, 1, k)]

(* ------- circular_buffer with its cursors, in both modes ------- *)

\* the platform's mapping granularity, in bytes
RbGranule == RbLen * RbItem

\* the requested byte size rounded up to a multiple of the granularity
rb_round(bytes) == ((bytes + RbGranule - 1) \div RbGranule) * RbGranule

\* m_buf_size: the capacity in bytes
rb_buf_size == RbLen * RbItem

\* space_available() that keeps one item back
rb_space_available_less(b) ==
    IF rb_buf_size - (b.m_w - b.m_r) >= RbItem
    THEN (rb_buf_size - (b.m_w - b.m_r)) \div RbItem - 1 ELSE 0

\* data_available() and space_available(), in items
rb_data_available(b) == (b.m_w - b.m_r) \div RbItem
rb_space_available(b) == (rb_buf_size - (b.m_w - b.m_r)) \div RbItem

\* the storage slot a byte offset falls into (offsets are taken modulo the
\* buffer size when indexed)
rb_slot(off) == (off \div RbItem) % RbLen

\* the cursors brought back below twice the buffer size: once the read
\* cursor has passed the buffer size, both drop by the same multiple of it
rb_norm(b) ==
    LET d == b.m_r - (b.m_r % rb_buf_size)
    IN  [b EXCEPT !.m_r = @ - d, !.m_w = @ - d]

\* the items held, oldest first
rb_items(b) ==
    [k \in 1..rb_data_available(b) |->
        b.store[rb_slot(b.m_r + (k - 1) * RbItem)]]

\* a copy that keeps the first item landing in a slot, not the last
rb_store_first(b, items, n) ==
    [j \in 0..(RbLen - 1) |->
        LET ks == {k \in 1..n : rb_slot(b.m_w + (k - 1) * RbItem) = j}
        IN  IF ks = {} THEN b.store[j]
            ELSE items[CHOOSE k \in ks : \A k2 \in ks : k <= k2]]

\* storage after items[1..n] were copied in at the write cursor
rb_store(b, items, n) ==
    [j \in 0..(RbLen - 1) |->
        LET ks == {k \in 1..n : rb_slot(b.m_w + (k - 1) * RbItem) = j}
        IN  IF ks = {} THEN b.store[j]
            ELSE items[CHOOSE k \in ks : \A k2 \in ks : k2 <= k]]

\* write() that takes all items in either mode
rb_write_all(b, items) ==
    LET n == Len(items)
    IN  [b |-> rb_norm([b EXCEPT !.store = rb_store(b, items, n),
                                 !.m_w = @ + n * RbItem]),
         written |-> n]

\* write(s, len): in non-overwrite mode it stops at the free space, in
\* overwrite mode it advances the read cursor past the oldest items as needed
\* and takes all len items
rb_write(b, items) ==
    LET space == rb_space_available(b)
        n == IF b.m_overwrite \/ Len(items) <= space THEN Len(items) ELSE space
        drop == IF n > space THEN n - space ELSE 0
    IN  [b |-> rb_norm([b EXCEPT !.store = rb_store(b, items, n),
                                 !.m_r = @ + drop * RbItem,
                                 !.m_w = @ + n * RbItem]),
         written |-> n]

\* read(s, len): copies out and removes the oldest min(len, data_available)
rb_read(b, len) ==
    LET n == IF len <= rb_data_available(b) THEN len ELSE rb_data_available(b)
    IN  [b |-> rb_norm([b EXCEPT !.m_r = @ + n * RbItem]),
         items |-> SubSeq(rb_items(b), 1, n)]

\* purge() that advances the read cursor by len whatever the ring holds
rb_purge_unclamped(b, len) ==
    [b |-> rb_norm([b EXCEPT !.m_r = @ + len * RbItem]), purged |-> len]

\* purge(len): advances the read cursor past the oldest
\* min(len, data_available) items without copying
rb_purge(b, len) ==
    LET n == IF len <= rb_data_available(b) THEN len ELSE rb_data_available(b)
    IN  [b |-> rb_norm([b EXCEPT !.m_r = @ + n * RbItem]), purged |-> n]

\* flush(): both cursors reset
rb_flush(b) == [b EXCEPT !.m_r = 0, !.m_w = 0]

\* circular_buffer(buf_len, obj_size, overwrite)
RbNew(buf_len, overwrite) ==
    /\ rb.pc = "none"
    /\ rb_round(buf_len * RbItem) = rb_buf_size
    /\ rb' = [NoRb EXCEPT !.pc = "ready", !.m_overwrite = overwrite,
                          !.plain = ~overwrite, !.req = buf_len]
    /\ UNCHANGED <<conv, proc, pre, tuneMark, cfg, hist, race>>
    /\ UNCHANGED rvars
    /\ UNCHANGED avars

\* write(s, len) of len fresh items, numbered in the order they are offered
RbWrite(len) ==
    /\ rb.pc = "ready" /\ rb.ops < MaxRbOps
    /\ LET items == [k \in 1..len |-> rb.offered + k]
           w == rb_write(rb, items)
       IN  rb' = [w.b EXCEPT !.offered = @ + len,
                             !.accepted = @ \o SubSeq(items, 1, w.written),
                             !.ops = @ + 1,
                             !.last = [op |-> "write", n |-> len,
                                       ret |-> w.written,
                                       before |-> rb_items(rb)]]
    /\ UNCHANGED <<conv, proc, pre, tuneMark, cfg, hist, race>>
    /\ UNCHANGED rvars
    /\ UNCHANGED avars

\* read(s, len)
RbRead(len) ==
    /\ rb.pc = "ready" /\ rb.ops < MaxRbOps
    /\ LET x == rb_read(rb, len)
       IN  rb' = [x.b EXCEPT !.returned = @ \o x.items, !.ops = @ + 1,
                             !.wonly = FALSE,
                             !.last = [op |-> "read", n |-> len,
                                       ret |-> Len(x.items),
                                       before |-> rb_items(rb)]]
    /\ UNCHANGED <<conv, proc, pre, tuneMark, cfg, hist, race>>
    /\ UNCHANGED rvars
    /\ UNCHANGED avars

\* peek(&len): a pointer to the oldest item and len = data_available
RbPeek ==
    /\ rb.pc = "ready" /\ rb.ops < MaxRbOps
    /\ rb' = [rb EXCEPT !.peeked = rb_items(rb), !.ops = @ + 1,
                        !.last = [op |-> "peek", n |-> 0,
                                  ret |-> rb_data_available(rb),
                                  before |-> rb_items(rb)]]
    /\ UNCHANGED <<conv, proc, pre, tuneMark, cfg, hist, race>>
    /\ UNCHANGED rvars
    /\ UNCHANGED avars

\* purge(len)
RbPurge(len) ==
    /\ rb.pc = "ready" /\ rb.ops < MaxRbOps
    /\ rb' = [rb_purge(rb, len).b EXCEPT !.plain = FALSE, !.ops = @ + 1,
                                         !.wonly = FALSE,
                                         !.last = [op |-> "purge", n |-> len,
                                                   ret |-> rb_purge(rb, len).purged,
                                                   before |-> rb_items(rb)]]
    /\ UNCHANGED <<conv, proc, pre, tuneMark, cfg, hist, race>>
    /\ UNCHANGED rvars
    /\ UNCHANGED avars

\* flush()
RbFlush ==
    /\ rb.pc = "ready" /\ rb.ops < MaxRbOps
    /\ rb' = [rb_flush(rb) EXCEPT !.plain = FALSE, !.ops = @ + 1,
                                  !.wonly = FALSE,
                                  !.last = [op |-> "flush", n |-> 0, ret |-> 0,
                                            before |-> rb_items(rb)]]
    /\ UNCHANGED <<conv, proc, pre, tuneMark, cfg, hist, race>>
    /\ UNCHANGED rvars
    /\ UNCHANGED avars

RbNext ==
    \/ \E buf_len \in RbReqs, overwrite \in BOOLEAN : RbNew(buf_len, overwrite)
    \/ \E len \in RbCounts : RbWrite(len)
    \/ \E len \in RbCounts : RbRead(len)
    \/ RbPeek
    \/ \E len \in RbCounts : RbPurge(len)
    \/ RbFlush

SpecRb == Init /\ [][RbNext]_vars

(* ------- dsp_resampler with its histories and coefficient tables ------- *)

\* A sample is the number of its arrival since reset() (0: the zero sample);
\* a coefficient is its index in the prototype table (ZeroCoeff: the value 0).
ZeroCoeff == -1

\* s1_coeffs_rev kept in prototype order
s1_coeffs_fwd == [i \in 0..(S1_TAPS - 1) |-> i]

\* constructor: s1_coeffs_rev[i] = S1_COEFFS[S1_TAPS - 1 - i]
s1_coeffs_rev == [i \in 0..(S1_TAPS - 1) |-> S1_TAPS - 1 - i]

\* the bank stored in tap order, entry tap of branch phase holding
\* prototype index phase + tap * S2_PHASES
s2_coeffs_fwd ==
    [phase \in 0..(S2_PHASES - 1) |->
        [j \in 0..(S2_TAPS_PER_PHASE - 1) |->
            IF phase + j * S2_PHASES < S2_TAPS_TOTAL
            THEN phase + j * S2_PHASES ELSE ZeroCoeff]]

\* constructor: for each phase and tap, raw_idx = phase + tap * S2_PHASES goes
\* to s2_coeffs_poly[phase][S2_TAPS_PER_PHASE - 1 - tap], 0.0f when raw_idx
\* is past the prototype
s2_coeffs_poly ==
    [phase \in 0..(S2_PHASES - 1) |->
        [j \in 0..(S2_TAPS_PER_PHASE - 1) |->
            LET tap == CHOOSE t \in 0..(S2_TAPS_PER_PHASE - 1) :
                           S2_TAPS_PER_PHASE - 1 - t = j
                raw_idx == phase + tap * S2_PHASES
            IN  IF raw_idx < S2_TAPS_TOTAL THEN raw_idx ELSE ZeroCoeff]]

RECURSIVE h_emit_wrap12(_, _, _)
\* h_emit with the phase wrap off by one (subtracts S2_INTERP - 1)
h_emit_wrap12(h, out_cap, out_produced) ==
    IF h.s2_phase_state < S2_INTERP
    THEN IF out_produced >= out_cap
         THEN [h |-> h, out |-> out_produced]
         ELSE h_emit_wrap12(
                [h EXCEPT
                   !.s2_dot = [k \in 0..(S2_TAPS_PER_PHASE - 1) |->
                                 [x |-> h.s2_history[h.s2_head + k],
                                  c |-> s2_coeffs_poly[h.s2_phase_state][k]]],
                   !.s2_at = h.m,
                   !.s2_win = h.s2_head,
                   !.s2_branch = h.s2_phase_state,
                   !.emits = Append(@, [input |-> h.m - 1,
                                        branch |-> h.s2_phase_state]),
                   !.s2_phase_state = @ + S2_DECIM],
                out_cap, out_produced + 1)
    ELSE [h |-> [h EXCEPT !.s2_phase_state = @ - (S2_INTERP - 1)],
          out |-> out_produced]

RECURSIVE h_emit(_, _, _)
\* push_stage2: the emission loop with its dot product, and the phase wrap.
\* s2_dot pairs, for k = 0..56, the sample h_ptr[k] with branch_coeffs[k];
\* emits logs the Stage-2 input (0-based) and the branch of every output.
h_emit(h, out_cap, out_produced) ==
    IF h.s2_phase_state < S2_INTERP
    THEN IF out_produced >= out_cap
         THEN [h |-> h, out |-> out_produced]
         ELSE h_emit(
                [h EXCEPT
                   !.s2_dot = [k \in 0..(S2_TAPS_PER_PHASE - 1) |->
                                 [x |-> h.s2_history[h.s2_head + k],
                                  c |-> s2_coeffs_poly[h.s2_phase_state][k]]],
                   !.s2_at = h.m,
                   !.s2_win = h.s2_head,
                   !.s2_branch = h.s2_phase_state,
                   !.emits = Append(@, [input |-> h.m - 1,
                                        branch |-> h.s2_phase_state]),
                   !.s2_phase_state = @ + S2_DECIM],
                out_cap, out_produced + 1)
    ELSE [h |-> [h EXCEPT !.s2_phase_state = @ - S2_INTERP],
          out |-> out_produced]

\* push_stage2 that writes the sample at s2_head only
h_push_stage2_once(h, sample, out_cap, out_produced) ==
    h_emit([h EXCEPT
              !.s2_history = [@ EXCEPT ![h.s2_head] = sample],
              !.s2_w = h.s2_head,
              !.s2_head = IF @ + 1 >= S2_TAPS_PER_PHASE THEN 0 ELSE @ + 1,
              !.m = @ + 1],
           out_cap, out_produced)

\* push_stage2(sample, ...): the sample written twice, the head advanced;
\* s2_w is the larger of the two write indices
h_push_stage2(h, sample, out_cap, out_produced) ==
    h_emit([h EXCEPT
              !.s2_history = [@ EXCEPT ![h.s2_head] = sample,
                                       ![h.s2_head + S2_TAPS_PER_PHASE] = sample],
              !.s2_w = h.s2_head + S2_TAPS_PER_PHASE,
              !.s2_head = IF @ + 1 >= S2_TAPS_PER_PHASE THEN 0 ELSE @ + 1,
              !.m = @ + 1],
           out_cap, out_produced)

\* push_stage1 whose head wraps one entry late
h_push_stage1_latewrap(h, sample, out_cap, out_produced) ==
    LET a == [h EXCEPT
                !.s1_history = [@ EXCEPT ![h.s1_head] = sample,
                                         ![h.s1_head + S1_TAPS] = sample],
                !.s1_w = h.s1_head + S1_TAPS,
                !.s1_head = IF @ + 1 > S1_TAPS THEN 0 ELSE @ + 1,
                !.n = @ + 1]
        ix == h.s1_index + 1
    IN  IF ix >= S1_DECIMATION
        THEN h_push_stage2(
               [a EXCEPT
                  !.s1_index = 0,
                  !.s1_dot = [k \in 0..(S1_TAPS - 1) |->
                                [x |-> a.s1_history[a.s1_head + k],
                                 c |-> s1_coeffs_rev[k]]],
                  !.s1_win = a.s1_head,
                  !.s1_at = a.n],
               h.m + 1, out_cap, out_produced)
        ELSE [h |-> [a EXCEPT !.s1_index = ix], out |-> out_produced]

\* push_stage1(sample, ...): the sample written twice, the head advanced, and
\* on every S1_DECIMATION-th input the dot product, whose result is the next
\* Stage-2 sample. s1_dot pairs, for k = 0..60, h_ptr[k] with c_ptr[k]; s1_w is
\* the larger of the two write indices, s1_win the index h_ptr points at.
h_push_stage1(h, sample, out_cap, out_produced) ==
    LET a == [h EXCEPT
                !.s1_history = [@ EXCEPT ![h.s1_head] = sample,
                                         ![h.s1_head + S1_TAPS] = sample],
                !.s1_w = h.s1_head + S1_TAPS,
                !.s1_head = IF @ + 1 >= S1_TAPS THEN 0 ELSE @ + 1,
                !.n = @ + 1]
        ix == h.s1_index + 1
    IN  IF ix >= S1_DECIMATION
        THEN h_push_stage2(
               [a EXCEPT
                  !.s1_index = 0,
                  !.s1_dot = [k \in 0..(S1_TAPS - 1) |->
                                [x |-> a.s1_history[a.s1_head + k],
                                 c |-> s1_coeffs_rev[k]]],
                  !.s1_win = a.s1_head,
                  !.s1_at = a.n],
               h.m + 1, out_cap, out_produced)
        ELSE [h |-> [a EXCEPT !.s1_index = ix], out |-> out_produced]

\* process() of one input with room for its output
HistPush ==
    /\ hist.n < MaxHist
    /\ hist' = h_push_stage1(hist, hist.n + 1, BATCH_SIZE, 0).h
    /\ UNCHANGED <<conv, proc, rb, pre, tuneMark, cfg, race>>
    /\ UNCHANGED rvars
    /\ UNCHANGED avars

\* reset()
HistReset ==
    /\ hist.n > 0
    /\ hist' = ResetHist
    /\ UNCHANGED <<conv, proc, rb, pre, tuneMark, cfg, race>>
    /\ UNCHANGED rvars
    /\ UNCHANGED avars

HistNext == HistPush \/ HistReset

SpecH == Init /\ [][HistNext]_vars

(* ------- process() in the worker against reset() in tune() ------- *)

\* Nothing orders the two threads: every load and every store of a resampler
\* field is a step of its own and the steps of the two threads interleave
\* freely. reg is the value the worker has loaded for the statement it is in.

\* a step of the two-thread run: only race changes
RaceTo(r) ==
    /\ race' = r
    /\ UNCHANGED <<conv, proc, rb, pre, tuneMark, cfg, hist>>
    /\ UNCHANGED rvars
    /\ UNCHANGED avars

\* process(): the next iteration calls push_stage1
RacePush ==
    /\ race.pc = "idle" /\ race.pushes < MaxRacePushes
    /\ RaceTo([race EXCEPT !.pc = "s1_write"])

\* s1_history[s1_head] = sample; s1_history[s1_head + S1_TAPS] = sample
RaceS1Write ==
    /\ race.pc = "s1_write"
    /\ RaceTo([race EXCEPT !.w1 = race.s1_head + S1_TAPS, !.pc = "s1_head_ld"])

\* s1_head++ and s2_head++, s1_index++: the load
RaceLoad ==
    /\ race.pc \in {"s1_head_ld", "s1_idx_ld", "s2_head_ld"}
    /\ RaceTo([race EXCEPT
                 !.reg = CASE race.pc = "s1_head_ld" -> race.s1_head
                           [] race.pc = "s1_idx_ld" -> race.s1_index
                           [] OTHER -> race.s2_head,
                 !.pc = CASE race.pc = "s1_head_ld" -> "s1_head_st"
                          [] race.pc = "s1_idx_ld" -> "s1_idx_st"
                          [] OTHER -> "s2_head_st"])

\* s1_head++: the store
RaceS1HeadStore ==
    /\ race.pc = "s1_head_st"
    /\ RaceTo([race EXCEPT !.s1_head = race.reg + 1, !.pc = "s1_wrap"])

\* if (s1_head >= S1_TAPS) s1_head = 0
RaceS1Wrap ==
    /\ race.pc = "s1_wrap"
    /\ RaceTo(IF race.s1_head >= S1_TAPS
              THEN [race EXCEPT !.s1_head = 0, !.pc = "s1_idx_ld"]
              ELSE [race EXCEPT !.pc = "s1_idx_ld"])

\* s1_index++: the store
RaceS1IndexStore ==
    /\ race.pc = "s1_idx_st"
    /\ RaceTo([race EXCEPT !.s1_index = race.reg + 1, !.pc = "s1_test"])

\* if (s1_index >= S1_DECIMATION); otherwise push_stage1 returns
RaceS1Test ==
    /\ race.pc = "s1_test"
    /\ RaceTo(IF race.s1_index >= S1_DECIMATION
              THEN [race EXCEPT !.pc = "s1_zero"]
              ELSE [race EXCEPT !.pc = "idle", !.pushes = @ + 1])

\* s1_index = 0
RaceS1Zero ==
    /\ race.pc = "s1_zero"
    /\ RaceTo([race EXCEPT !.s1_index = 0, !.pc = "s1_dot"])

\* h_ptr = &s1_history[s1_head]; the dot product; push_stage2 is called
RaceS1Dot ==
    /\ race.pc = "s1_dot"
    /\ RaceTo([race EXCEPT !.win1 = race.s1_head, !.pc = "s2_write"])

\* s2_history[s2_head] = sample; s2_history[s2_head + S2_TAPS_PER_PHASE] = sample
RaceS2Write ==
    /\ race.pc = "s2_write"
    /\ RaceTo([race EXCEPT !.w2 = race.s2_head + S2_TAPS_PER_PHASE,
                           !.pc = "s2_head_ld"])

\* s2_head++: the store
RaceS2HeadStore ==
    /\ race.pc = "s2_head_st"
    /\ RaceTo([race EXCEPT !.s2_head = race.reg + 1, !.pc = "s2_wrap"])

\* if (s2_head >= S2_TAPS_PER_PHASE) s2_head = 0
RaceS2Wrap ==
    /\ race.pc = "s2_wrap"
    /\ RaceTo(IF race.s2_head >= S2_TAPS_PER_PHASE
              THEN [race EXCEPT !.s2_head = 0, !.pc = "s2_test"]
              ELSE [race EXCEPT !.pc = "s2_test"])

\* while (s2_phase_state < S2_INTERP)
RaceS2Test ==
    /\ race.pc = "s2_test"
    /\ RaceTo([race EXCEPT !.pc = IF race.s2_phase_state < S2_INTERP
                                  THEN "s2_branch" ELSE "s2_sub_ld"])

\* h_ptr = &s2_history[s2_head]; branch_coeffs = s2_coeffs_poly[s2_phase_state]
\* (the output buffer of the worker has room); the dot product
RaceS2Branch ==
    /\ race.pc = "s2_branch"
    /\ RaceTo([race EXCEPT !.branch = race.s2_phase_state,
                           !.win2 = race.s2_head, !.pc = "s2_add_ld"])

\* s2_phase_state += S2_DECIM and s2_phase_state -= S2_INTERP: the load
RaceS2PhaseLoad ==
    /\ race.pc \in {"s2_add_ld", "s2_sub_ld"}
    /\ RaceTo([race EXCEPT !.reg = race.s2_phase_state,
                           !.pc = IF race.pc = "s2_add_ld"
                                  THEN "s2_add_st" ELSE "s2_sub_st"])

\* s2_phase_state += S2_DECIM: the store; back to the loop test
RaceS2AddStore ==
    /\ race.pc = "s2_add_st"
    /\ RaceTo([race EXCEPT !.s2_phase_state = race.reg + S2_DECIM,
                           !.pc = "s2_test"])

\* s2_phase_state -= S2_INTERP: the store; push_stage2 and push_stage1 return
RaceS2SubStore ==
    /\ race.pc = "s2_sub_st"
    /\ RaceTo([race EXCEPT !.s2_phase_state = race.reg - S2_INTERP,
                           !.pc = "idle", !.pushes = @ + 1])

\* tune() calls m_resampler->reset()
RaceResetCall ==
    /\ race.tpc = 0 /\ race.resets < MaxRaceResets
    /\ RaceTo([race EXCEPT !.tpc = 1, !.resets = @ + 1])

\* reset(): its six statements in order (the two std::fill calls change no
\* index)
RaceResetStep ==
    /\ race.tpc > 0
    /\ RaceTo([race EXCEPT
                 !.s1_index = IF race.tpc = 1 THEN 0 ELSE @,
                 !.s1_head = IF race.tpc = 2 THEN 0 ELSE @,
                 !.s2_head = IF race.tpc = 4 THEN 0 ELSE @,
                 !.s2_phase_state = IF race.tpc = 5 THEN 0 ELSE @,
                 !.tpc = IF race.tpc = 6 THEN 0 ELSE race.tpc + 1])

RaceNext ==
    \/ RacePush
    \/ RaceS1Write
    \/ RaceLoad
    \/ RaceS1HeadStore
    \/ RaceS1Wrap
    \/ RaceS1IndexStore
    \/ RaceS1Test
    \/ RaceS1Zero
    \/ RaceS1Dot
    \/ RaceS2Write
    \/ RaceS2HeadStore
    \/ RaceS2Wrap
    \/ RaceS2Test
    \/ RaceS2Branch
    \/ RaceS2PhaseLoad
    \/ RaceS2AddStore
    \/ RaceS2SubStore
    \/ RaceResetCall
    \/ RaceResetStep

SpecRace == Init /\ [][RaceNext]_vars

(* ------- iio_source: open(), set_gain() and tune() on their own ------- *)

\* set_gain(gain); ok is the outcome of the hardwaregain attribute write,
\* which the code does not look at
cfg_set_gain(c, gain, ok) ==
    IF ~c.m_phy THEN [c |-> c, rejected |-> {}, ret |-> -1]
    ELSE [c |-> [c EXCEPT !.m_gain = gain,
                          !.hw_gain = IF ok THEN gain ELSE @],
          rejected |-> IF ok THEN {} ELSE {"hardwaregain"},
          ret |-> 0]

\* iio_source(gain, uri)
CfgNew(gain) ==
    /\ cfg.pc = "none"
    /\ cfg' = [NoCfg EXCEPT !.pc = "new", !.m_gain = gain]
    /\ UNCHANGED <<conv, proc, rb, pre, tuneMark, hist, race>>
    /\ UNCHANGED rvars
    /\ UNCHANGED avars

\* open(): each argument is the outcome of one driver call, in code order;
\* a rejected sampling-rate write only prints a warning, the gain-mode write
\* and the result of set_gain(m_gain) are not looked at
CfgOpen(ctx_ok, dev_ok, phy_ok, chan_ok, rate_ok, mode_ok, gain_ok, cb_ok) ==
    /\ cfg.pc = "new"
    /\ LET c1 == [cfg EXCEPT !.m_ctx = ctx_ok]
           c2 == [c1 EXCEPT !.m_dev = dev_ok, !.m_phy = phy_ok]
           c3 == [c2 EXCEPT !.m_rx0 = chan_ok]
           c4 == [c3 EXCEPT !.hw_rate = IF rate_ok
                                        THEN IIO_2_5MSPS_NATIVE_RATE ELSE @,
                            !.hw_manual = mode_ok]
           g  == cfg_set_gain(c4, c4.m_gain, gain_ok)
           rej == (IF rate_ok THEN {} ELSE {"sampling_frequency"})
                    \cup (IF mode_ok THEN {} ELSE {"gain_control_mode"})
                    \cup g.rejected
           fail(c) == [c EXCEPT !.pc = "failed",
                                !.last = [op |-> "open", rejected |-> {},
                                          ret |-> -1]]
       IN  cfg' = IF ~ctx_ok THEN fail(c1)
                  ELSE IF ~dev_ok \/ ~phy_ok THEN fail(c2)
                  ELSE IF ~chan_ok THEN fail(c3)
                  ELSE IF ~cb_ok
                       THEN [g.c EXCEPT !.pc = "failed",
                                        !.last = [op |-> "open",
                                                  rejected |-> rej,
                                                  ret |-> -1]]
                  ELSE [g.c EXCEPT !.pc = "open", !.cb = TRUE,
                                   !.last = [op |-> "open", rejected |-> rej,
                                             ret |-> 0]]
    /\ UNCHANGED <<conv, proc, rb, pre, tuneMark, hist, race>>
    /\ UNCHANGED rvars
    /\ UNCHANGED avars

\* set_gain(gain), before or after open()
CfgSetGain(gain, ok) ==
    /\ cfg.pc \in {"new", "open"}
    /\ LET g == cfg_set_gain(cfg, gain, ok)
       IN  cfg' = [g.c EXCEPT !.last = [op |-> "set_gain",
                                        rejected |-> g.rejected,
                                        ret |-> g.ret]]
    /\ UNCHANGED <<conv, proc, rb, pre, tuneMark, hist, race>>
    /\ UNCHANGED rvars
    /\ UNCHANGED avars

\* tune(freq), before or after open(); ok is the outcome of the frequency
\* attribute write
CfgTune(freq, ok) ==
    /\ cfg.pc \in {"new", "open"}
    /\ IF ~cfg.m_phy
       THEN /\ cfg' = [cfg EXCEPT !.last = [op |-> "tune", rejected |-> {},
                                            ret |-> -1]]
            /\ UNCHANGED rs
       ELSE IF ~ok
       THEN /\ cfg' = [cfg EXCEPT !.last = [op |-> "tune",
                                            rejected |-> {"frequency"},
                                            ret |-> -1]]
            /\ UNCHANGED rs
       ELSE /\ cfg' = [cfg EXCEPT !.m_center_freq = freq, !.hw_lo = freq,
                                  !.last = [op |-> "tune", rejected |-> {},
                                            ret |-> 0]]
            /\ rs' = ResetState
    /\ UNCHANGED <<conv, proc, rb, pre, tuneMark, hist, race>>
    /\ UNCHANGED <<nin, call, win>>
    /\ UNCHANGED avars

CfgNext ==
    \/ \E gain \in Gains : CfgNew(gain)
    \/ \E ctx_ok, dev_ok, phy_ok, chan_ok \in BOOLEAN :
         \E rate_ok, mode_ok, gain_ok, cb_ok \in BOOLEAN :
            CfgOpen(ctx_ok, dev_ok, phy_ok, chan_ok,
                    rate_ok, mode_ok, gain_ok, cb_ok)
    \/ \E gain \in Gains, ok \in BOOLEAN : CfgSetGain(gain, ok)
    \/ \E freq \in Freqs, ok \in BOOLEAN : CfgTune(freq, ok)

SpecCfg == Init /\ [][CfgNext]_vars

(* ---------------- iio_source: helpers ---------------- *)

Min(a, b) == IF a <= b THEN a ELSE b

\* the conversion loop of worker_thread: samples handed to the resampler
batch_count(chunk) == Min(chunk, BATCH_SIZE)

\* worker_thread: the amount added to m_overflow_count after a short write
overflow_add_all(produced, written) == produced
overflow_add(produced, written) == produced - written

\* out_buf handed to the ring in reverse order
out_buf_rev(first, produced) == [i \in 1..produced |-> first + produced + 1 - i]

\* out_buf[0 .. produced): the samples of one batch in production order
out_buf(first, produced) == [i \in 1..produced |-> first + i]

\* fill() leaving its loop on enough data only
fill_break_full(avail, num_samples, str) ==
    (avail >= Min(num_samples, RingCap)) \/ ~str
fill_break_nostop(avail, num_samples, str) == avail >= num_samples

\* fill(): the loop leaves on enough data or on streaming == false
fill_break(avail, num_samples, str) == (avail >= num_samples) \/ ~str

\* fill() without its check after the loop
fill_post_always0(str) == 0

\* fill(): the check after the loop; the value returned when it decides
fill_post(str) == IF ~str THEN -1 ELSE 0

\* a load of overflow_count instead of the exchange
fill_exchange_keep(count) == [overruns |-> count, count |-> count]

\* fill(): overflow_count.exchange(0)
fill_exchange(count) == [overruns |-> count, count |-> 0]

FillPcs == {"lock", "chk_exit", "chk_data", "wait", "post", "xchg"}

\* what a returning fill() leaves: its argument, its result, *overruns, what
\* its last checks observed, whether it called start(), the count that start()
\* zeroed, and whether it stored to *overruns
FillReturn(n, ret, overruns, c) ==
    [valid |-> TRUE, n |-> n, ret |-> ret, overruns |-> overruns,
     sawAvail |-> c.sawAvail, sawStop |-> c.sawStop,
     restarted |-> c.restarted, lost |-> c.lost, wrote |-> c.wrote]

\* the accounts restart when m_overflow_count is zeroed; a shortfall the
\* worker has decided but not yet counted stays owed
AcctRestart ==
    [dropped |-> IF wpc = "account" THEN wl.produced - wl.written ELSE 0,
     delivered |-> 0]

\* a call of the main task: no other call of it is in progress
MainIdle == life = "open" /\ cpc = "idle" /\ spc = "idle"

\* owner of the ring's internal mutex: every public operation of the ring
\* holds it for its duration; only the consumer's read() spans two steps
m_mutex == IF cpc = "read" THEN "consumer" ELSE "free"

(* ---------------- iio_source: lifecycle ---------------- *)

\* open() succeeds: devices found, ring buffer allocated
Open ==
    /\ life = "new"
    /\ life' = "open"
    /\ m_dev' = TRUE
    /\ cb' = TRUE
    /\ UNCHANGED <<ring, m_rxbuf, streaming, m_overflow_count, data_mutex,
                   g_kal_exit_req, wpc, wl, cpc, cl, spc, closing, refills,
                   prodSeq, got, lastFill, acct>>
    /\ UNCHANGED rvars
    /\ UNCHANGED xvars

\* open() returns -1 (no context, no device, or no ring buffer); main() then
\* deletes the source
OpenFail(dev) ==
    /\ life = "new"
    /\ life' = "failed"
    /\ m_dev' = dev
    /\ UNCHANGED <<cb, ring, m_rxbuf, streaming, m_overflow_count, data_mutex,
                   g_kal_exit_req, wpc, wl, cpc, cl, spc, closing, refills,
                   prodSeq, got, lastFill, acct>>
    /\ UNCHANGED rvars
    /\ UNCHANGED xvars

\* start(); ok is the outcome of iio_device_create_buffer
StartBody(ok) ==
    IF ~m_dev
    THEN UNCHANGED <<rs, m_overflow_count, acct, m_rxbuf, streaming, wpc, wl, life>>
    ELSE /\ rs' = ResetState
         /\ m_overflow_count' = 0
         /\ acct' = AcctRestart
         /\ m_rxbuf' = ok
         /\ IF ~ok
            THEN UNCHANGED <<streaming, wpc, wl, life>>
            ELSE /\ streaming' = TRUE
                 /\ IF wpc # "none"
                    THEN \* assignment to a joinable std::thread: std::terminate
                         /\ life' = "aborted"
                         /\ UNCHANGED <<wpc, wl>>
                    ELSE /\ wpc' = "loop"
                         /\ wl' = NoBatch
                         /\ UNCHANGED life

\* start() called by the main task on any state of the source
StartAnyCall(ok) ==
    /\ MainIdle
    /\ StartBody(ok)
    /\ UNCHANGED <<m_dev, cb, ring, data_mutex, g_kal_exit_req, cpc, cl, spc,
                   closing, refills, prodSeq, got, lastFill>>
    /\ UNCHANGED <<nin, call, win>>
    /\ UNCHANGED xvars

\* start() called by the main task the way fill() calls it (the only call
\* of start() in the sources): when streaming is false
StartCall(ok) ==
    /\ MainIdle
    /\ ~streaming
    /\ StartBody(ok)
    /\ UNCHANGED <<m_dev, cb, ring, data_mutex, g_kal_exit_req, cpc, cl, spc,
                   closing, refills, prodSeq, got, lastFill>>
    /\ UNCHANGED <<nin, call, win>>
    /\ UNCHANGED xvars

\* tune(freq) by the main task, with or without a running worker; ok is the
\* outcome of the frequency attribute write. No lock is taken.
Tune(ok) ==
    /\ MainIdle
    /\ IF ok
       THEN /\ rs' = ResetState
            /\ tuneMark' = prodSeq
       ELSE UNCHANGED <<rs, tuneMark>>
    /\ UNCHANGED <<life, m_dev, cb, ring, m_rxbuf, streaming, m_overflow_count,
                   data_mutex, g_kal_exit_req, wpc, wl, cpc, cl, spc, closing,
                   refills, prodSeq, got, lastFill, acct>>
    /\ UNCHANGED <<nin, call, win>>
    /\ UNCHANGED <<conv, proc, rb, pre, cfg, hist, race>>

\* stop() that goes through its body whatever streaming holds
stop_enters_always(s) == TRUE

\* stop(): if (streaming.load())
stop_enters(s) == s

\* stop(): entry. It is called by the main task, also while a fill() of the
\* consumer is in progress.
StopCall ==
    /\ life = "open" /\ spc = "idle"
    /\ cpc = "idle" \/ cpc \in FillPcs
    /\ IF stop_enters(streaming)
       THEN streaming' = FALSE /\ spc' = "join"
       ELSE spc' = "ret0" /\ UNCHANGED streaming
    /\ UNCHANGED <<life, m_dev, cb, ring, m_rxbuf, m_overflow_count, data_mutex,
                   g_kal_exit_req, wpc, wl, cpc, cl, closing, refills, prodSeq,
                   got, lastFill, acct>>
    /\ UNCHANGED rvars
    /\ UNCHANGED xvars

\* stop(): return 0 of a call that found streaming false
StopReturn ==
    /\ spc = "ret0"
    /\ spc' = "idle"
    /\ UNCHANGED <<life, m_dev, cb, ring, m_rxbuf, streaming, m_overflow_count,
                   data_mutex, g_kal_exit_req, wpc, wl, cpc, cl, closing,
                   refills, prodSeq, got, lastFill, acct>>
    /\ UNCHANGED rvars
    /\ UNCHANGED xvars

\* stop() going on to destroy the buffer without joining the worker
StopJoin_nojoin ==
    /\ spc = "join"
    /\ spc' = "destroy"
    /\ UNCHANGED <<life, m_dev, cb, ring, m_rxbuf, streaming, m_overflow_count,
                   data_mutex, g_kal_exit_req, wpc, wl, cpc, cl, closing,
                   refills, prodSeq, got, lastFill, acct>>
    /\ UNCHANGED rvars
    /\ UNCHANGED xvars

\* stop(): if (m_worker.joinable()) m_worker.join()
StopJoin ==
    /\ spc = "join"
    /\ wpc \in {"none", "done"}
    /\ wpc' = "none"
    /\ spc' = "destroy"
    /\ UNCHANGED <<life, m_dev, cb, ring, m_rxbuf, streaming, m_overflow_count,
                   data_mutex, g_kal_exit_req, wl, cpc, cl, closing, refills,
                   prodSeq, got, lastFill, acct>>
    /\ UNCHANGED rvars
    /\ UNCHANGED xvars

\* stop(): iio_buffer_destroy(m_rxbuf); m_rxbuf = NULL
StopDestroy ==
    /\ spc = "destroy"
    /\ m_rxbuf' = FALSE
    /\ spc' = "notify"
    /\ UNCHANGED <<life, m_dev, cb, ring, streaming, m_overflow_count,
                   data_mutex, g_kal_exit_req, wpc, wl, cpc, cl, closing,
                   refills, prodSeq, got, lastFill, acct>>
    /\ UNCHANGED rvars
    /\ UNCHANGED xvars

\* stop(): data_ready.notify_all(); return 0. A waiter of wait_for may wake at
\* any time (timeout), so the notification enables no new step.
StopNotify ==
    /\ spc = "notify"
    /\ spc' = IF closing THEN "close" ELSE "idle"
    /\ UNCHANGED <<life, m_dev, cb, ring, m_rxbuf, streaming, m_overflow_count,
                   data_mutex, g_kal_exit_req, wpc, wl, cpc, cl, closing,
                   refills, prodSeq, got, lastFill, acct>>
    /\ UNCHANGED rvars
    /\ UNCHANGED xvars

\* close(): entry, the stop() it starts with
CloseCall ==
    /\ \/ MainIdle
       \/ life = "failed" /\ cpc = "idle" /\ spc = "idle"
    /\ closing' = TRUE
    /\ IF streaming
       THEN streaming' = FALSE /\ spc' = "join"
       ELSE spc' = "close" /\ UNCHANGED streaming
    /\ lastFill' = NoFill
    /\ UNCHANGED <<life, m_dev, cb, ring, m_rxbuf, m_overflow_count, data_mutex,
                   g_kal_exit_req, wpc, wl, cpc, cl, refills, prodSeq, got, acct>>
    /\ UNCHANGED rvars
    /\ UNCHANGED xvars

\* close(): after stop(), destroy the driver buffer and context, delete cb
CloseTail ==
    /\ spc = "close"
    /\ m_rxbuf' = FALSE
    /\ cb' = FALSE
    /\ ring' = << >>
    /\ life' = "closed"
    /\ spc' = "idle"
    /\ closing' = FALSE
    /\ UNCHANGED <<m_dev, streaming, m_overflow_count, data_mutex,
                   g_kal_exit_req, wpc, wl, cpc, cl, refills, prodSeq, got,
                   lastFill, acct>>
    /\ UNCHANGED rvars
    /\ UNCHANGED xvars

\* sighandler(): g_kal_exit_req = 1
SetExit ==
    /\ life = "open"
    /\ ~g_kal_exit_req
    /\ g_kal_exit_req' = TRUE
    /\ UNCHANGED <<life, m_dev, cb, ring, m_rxbuf, streaming, m_overflow_count,
                   data_mutex, wpc, wl, cpc, cl, spc, closing, refills, prodSeq,
                   got, lastFill, acct>>
    /\ UNCHANGED rvars
    /\ UNCHANGED xvars

(* ---------------- iio_source::worker_thread ---------------- *)

\* while (streaming.load())
WLoop ==
    /\ life = "open" /\ wpc = "loop"
    /\ wpc' = IF streaming THEN "refill" ELSE "done"
    /\ wl' = NoBatch
    /\ UNCHANGED <<life, m_dev, cb, ring, m_rxbuf, streaming, m_overflow_count,
                   data_mutex, g_kal_exit_req, cpc, cl, spc, closing,
                   refills, prodSeq, got, lastFill, acct>>
    /\ UNCHANGED rvars
    /\ UNCHANGED xvars

\* iio_buffer_refill returns an error: break
WRefillErr ==
    /\ life = "open" /\ wpc = "refill"
    /\ m_rxbuf
    /\ wpc' = "done"
    /\ wl' = [NoBatch EXCEPT !.path = "ioerr"]
    /\ UNCHANGED <<life, m_dev, cb, ring, m_rxbuf, streaming, m_overflow_count,
                   data_mutex, g_kal_exit_req, cpc, cl, spc, closing, refills,
                   prodSeq, got, lastFill, acct>>
    /\ UNCHANGED rvars
    /\ UNCHANGED xvars

\* iio_buffer_refill returns a chunk; it is converted and resampled
WRefill(chunk) ==
    /\ life = "open" /\ wpc = "refill"
    /\ m_rxbuf
    /\ refills < MaxRefills
    /\ LET r == process(rs, batch_count(chunk), BATCH_SIZE)
       IN  /\ rs' = r.st
           /\ wl' = [NoBatch EXCEPT !.produced = r.produced, !.first = prodSeq]
           /\ prodSeq' = prodSeq + r.produced
           /\ wpc' = IF r.produced > 0 THEN "trylock" ELSE "loop"
    /\ refills' = refills + 1
    /\ UNCHANGED <<life, m_dev, cb, ring, m_rxbuf, streaming, m_overflow_count,
                   data_mutex, g_kal_exit_req, cpc, cl, spc, closing, got,
                   lastFill, acct>>
    /\ UNCHANGED <<nin, call, win>>
    /\ UNCHANGED xvars

\* iio_buffer_refill on a null m_rxbuf (start() failed under a running
\* worker): the process crashes
WRefillNull ==
    /\ life = "open" /\ wpc = "refill"
    /\ ~m_rxbuf
    /\ life' = "aborted"
    /\ UNCHANGED <<m_dev, cb, ring, m_rxbuf, streaming, m_overflow_count,
                   data_mutex, g_kal_exit_req, wpc, wl, cpc, cl, spc, closing,
                   refills, prodSeq, got, lastFill, acct>>
    /\ UNCHANGED rvars
    /\ UNCHANGED xvars

\* lock.try_lock() succeeds
WTryLockOk ==
    /\ life = "open" /\ wpc = "trylock"
    /\ data_mutex = "free"
    /\ data_mutex' = "worker"
    /\ wpc' = "write"
    /\ wl' = [wl EXCEPT !.path = "locked"]
    /\ UNCHANGED <<life, m_dev, cb, ring, m_rxbuf, streaming, m_overflow_count,
                   g_kal_exit_req, cpc, cl, spc, closing, refills, prodSeq, got,
                   lastFill, acct>>
    /\ UNCHANGED rvars
    /\ UNCHANGED xvars

\* lock.try_lock() fails: m_overflow_count += produced
WTryLockFail ==
    /\ life = "open" /\ wpc = "trylock"
    /\ data_mutex # "free"
    /\ m_overflow_count' = m_overflow_count + wl.produced
    /\ wl' = [wl EXCEPT !.path = "dropped",
                         !.counted = m_overflow_count' - m_overflow_count]
    /\ acct' = [acct EXCEPT !.dropped = @ + wl.produced]
    /\ wpc' = "loop"
    /\ UNCHANGED <<life, m_dev, cb, ring, m_rxbuf, streaming, data_mutex,
                   g_kal_exit_req, cpc, cl, spc, closing, refills, prodSeq, got,
                   lastFill>>
    /\ UNCHANGED rvars
    /\ UNCHANGED xvars

\* if (cb) written = cb->write(out_buf, produced)
WWrite ==
    /\ life = "open" /\ wpc = "write"
    /\ cb => m_mutex = "free"
    /\ IF cb
       THEN LET w == cb_write(ring, out_buf(wl.first, wl.produced))
            IN  /\ ring' = w.ring
                /\ wl' = [wl EXCEPT !.written = w.written,
                                     !.appended = Len(w.ring) - Len(ring)]
                /\ acct' = [acct EXCEPT !.dropped = @ + (wl.produced - w.written)]
                /\ wpc' = IF w.written < wl.produced THEN "account" ELSE "unlock"
       ELSE /\ wpc' = "unlock"
            /\ UNCHANGED <<ring, wl, acct>>
    /\ UNCHANGED <<life, m_dev, cb, m_rxbuf, streaming, m_overflow_count,
                   data_mutex, g_kal_exit_req, cpc, cl, spc, closing, refills,
                   prodSeq, got, lastFill>>
    /\ UNCHANGED rvars
    /\ UNCHANGED xvars

\* m_overflow_count += (produced - written)
WAccount ==
    /\ life = "open" /\ wpc = "account"
    /\ m_overflow_count' = m_overflow_count + overflow_add(wl.produced, wl.written)
    /\ wl' = [wl EXCEPT !.counted = m_overflow_count' - m_overflow_count]
    /\ wpc' = "unlock"
    /\ UNCHANGED <<life, m_dev, cb, ring, m_rxbuf, streaming, data_mutex,
                   g_kal_exit_req, cpc, cl, spc, closing, refills, prodSeq, got,
                   lastFill, acct>>
    /\ UNCHANGED rvars
    /\ UNCHANGED xvars

\* lock.unlock(); data_ready.notify_one()
WUnlock ==
    /\ life = "open" /\ wpc = "unlock"
    /\ data_mutex' = "free"
    /\ wpc' = "loop"
    /\ UNCHANGED <<life, m_dev, cb, ring, m_rxbuf, streaming, m_overflow_count,
                   g_kal_exit_req, wl, cpc, cl, spc, closing, refills, prodSeq,
                   got, lastFill, acct>>
    /\ UNCHANGED rvars
    /\ UNCHANGED xvars

(* ---------------- iio_source::fill ---------------- *)

\* the wait of fill() entered without releasing data_mutex
FillChkData_keeplock ==
    /\ life = "open" /\ cpc = "chk_data"
    /\ IF fill_break(data_available(ring), cl.n, streaming)
       THEN /\ cpc' = "post"
            /\ cl' = [cl EXCEPT !.sawAvail = data_available(ring) >= cl.n,
                                 !.sawStop = (data_available(ring) < cl.n) /\ ~streaming]
       ELSE /\ cpc' = "wait"
            /\ UNCHANGED cl
    /\ UNCHANGED <<life, m_dev, cb, ring, m_rxbuf, streaming, m_overflow_count,
                   g_kal_exit_req, wpc, wl, spc, closing, refills, prodSeq, got,
                   lastFill, acct, data_mutex>>
    /\ UNCHANGED rvars
    /\ UNCHANGED xvars

\* fill() that goes to the lock without looking at streaming
FillCall_nostart(n, ov, ok) ==
    /\ life \in {"new", "open", "closed"} /\ cpc = "idle" /\ spc = "idle"
    /\ IF ~cb
       THEN /\ lastFill' = FillReturn(n, -1, 0, NoFillCall)
            /\ UNCHANGED <<cpc, cl>>
       ELSE /\ lastFill' = NoFill
            /\ cpc' = "lock"
            /\ cl' = [NoFillCall EXCEPT
                         !.n = n, !.ov = ov, !.restarted = ~streaming]
            /\ ok
    /\ UNCHANGED <<rs, m_overflow_count, acct, m_rxbuf, streaming, wpc, wl, life>>
    /\ UNCHANGED <<m_dev, cb, ring, data_mutex, g_kal_exit_req, spc, closing,
                   refills, prodSeq, got>>
    /\ UNCHANGED <<nin, call, win>>
    /\ UNCHANGED xvars

\* fill(num_samples, overruns): entry; ov says overruns is non-null, ok is the
\* outcome of the buffer creation of the start() it may call
FillCall(n, ov, ok) ==
    /\ life \in {"new", "open", "closed"} /\ cpc = "idle" /\ spc = "idle"
    /\ IF ~cb
       THEN /\ lastFill' = FillReturn(n, -1, 0, NoFillCall)
            /\ UNCHANGED <<cpc, cl, rs, m_overflow_count, acct, m_rxbuf,
                           streaming, wpc, wl, life>>
       ELSE /\ lastFill' = NoFill
            /\ cpc' = "lock"
            /\ cl' = [NoFillCall EXCEPT
                         !.n = n, !.ov = ov, !.restarted = ~streaming,
                         !.lost = IF ~streaming /\ m_dev
                                  THEN m_overflow_count ELSE 0]
            /\ IF ~streaming
               THEN StartBody(ok)
               ELSE /\ ok
                    /\ UNCHANGED <<rs, m_overflow_count, acct, m_rxbuf,
                                   streaming, wpc, wl, life>>
    /\ UNCHANGED <<m_dev, cb, ring, data_mutex, g_kal_exit_req, spc, closing,
                   refills, prodSeq, got>>
    /\ UNCHANGED <<nin, call, win>>
    /\ UNCHANGED xvars

\* std::unique_lock<std::mutex> lock(data_mutex)
FillLock ==
    /\ life = "open" /\ cpc = "lock"
    /\ data_mutex = "free"
    /\ data_mutex' = "consumer"
    /\ cpc' = "chk_exit"
    /\ UNCHANGED <<life, m_dev, cb, ring, m_rxbuf, streaming, m_overflow_count,
                   g_kal_exit_req, wpc, wl, cl, spc, closing, refills, prodSeq,
                   got, lastFill, acct>>
    /\ UNCHANGED rvars
    /\ UNCHANGED xvars

\* fill() without the poll of the exit flag
FillChkExit_nopoll ==
    /\ life = "open" /\ cpc = "chk_exit"
    /\ cpc' = "chk_data"
    /\ UNCHANGED <<life, m_dev, cb, ring, m_rxbuf, streaming, m_overflow_count,
                   data_mutex, g_kal_exit_req, wpc, wl, cl, spc, closing,
                   refills, prodSeq, got, lastFill, acct>>
    /\ UNCHANGED rvars
    /\ UNCHANGED xvars

\* fill() that hands the count over before it returns -1 on the exit flag
FillChkExit_report ==
    /\ life = "open" /\ cpc = "chk_exit"
    /\ IF g_kal_exit_req
       THEN /\ cpc' = "idle"
            /\ data_mutex' = "free"
            /\ m_overflow_count' = 0
            /\ lastFill' = FillReturn(cl.n, -1, m_overflow_count,
                                      [cl EXCEPT !.wrote = TRUE])
       ELSE /\ cpc' = "chk_data"
            /\ UNCHANGED <<data_mutex, lastFill, m_overflow_count>>
    /\ UNCHANGED <<life, m_dev, cb, ring, m_rxbuf, streaming,
                   g_kal_exit_req, wpc, wl, cl, spc, closing, refills, prodSeq,
                   got, acct>>
    /\ UNCHANGED rvars
    /\ UNCHANGED xvars

\* if (g_kal_exit_req) return -1
FillChkExit ==
    /\ life = "open" /\ cpc = "chk_exit"
    /\ IF g_kal_exit_req
       THEN /\ cpc' = "idle"
            /\ data_mutex' = "free"
            /\ lastFill' = FillReturn(cl.n, -1, 0, cl)
       ELSE /\ cpc' = "chk_data"
            /\ UNCHANGED <<data_mutex, lastFill>>
    /\ UNCHANGED <<life, m_dev, cb, ring, m_rxbuf, streaming, m_overflow_count,
                   g_kal_exit_req, wpc, wl, cl, spc, closing, refills, prodSeq,
                   got, acct>>
    /\ UNCHANGED rvars
    /\ UNCHANGED xvars

\* if ((cb->data_available() >= num_samples) || !streaming.load()) break;
\* data_ready.wait_for(lock, 100 ms) releases data_mutex
FillChkData ==
    /\ life = "open" /\ cpc = "chk_data"
    /\ IF fill_break(data_available(ring), cl.n, streaming)
       THEN /\ cpc' = "post"
            /\ cl' = [cl EXCEPT !.sawAvail = data_available(ring) >= cl.n,
                                 !.sawStop = (data_available(ring) < cl.n) /\ ~streaming]
            /\ UNCHANGED data_mutex
       ELSE /\ cpc' = "wait"
            /\ data_mutex' = "free"
            /\ UNCHANGED cl
    /\ UNCHANGED <<life, m_dev, cb, ring, m_rxbuf, streaming, m_overflow_count,
                   g_kal_exit_req, wpc, wl, spc, closing, refills, prodSeq, got,
                   lastFill, acct>>
    /\ UNCHANGED rvars
    /\ UNCHANGED xvars

\* wait_for returns (notification, timeout or spurious wake) with data_mutex
\* re-acquired
FillWake ==
    /\ life = "open" /\ cpc = "wait"
    /\ data_mutex = "free"
    /\ data_mutex' = "consumer"
    /\ cpc' = "chk_exit"
    /\ UNCHANGED <<life, m_dev, cb, ring, m_rxbuf, streaming, m_overflow_count,
                   g_kal_exit_req, wpc, wl, cl, spc, closing, refills, prodSeq,
                   got, lastFill, acct>>
    /\ UNCHANGED rvars
    /\ UNCHANGED xvars

\* if (!streaming.load()) return -1
FillPost ==
    /\ life = "open" /\ cpc = "post"
    /\ IF fill_post(streaming) = -1
       THEN /\ cpc' = "idle"
            /\ data_mutex' = "free"
            /\ lastFill' = FillReturn(cl.n, -1, 0, cl)
            /\ UNCHANGED cl
       ELSE /\ cpc' = "xchg"
            /\ cl' = [cl EXCEPT !.sawStop = @ \/ ~streaming]
            /\ UNCHANGED <<data_mutex, lastFill>>
    /\ UNCHANGED <<life, m_dev, cb, ring, m_rxbuf, streaming, m_overflow_count,
                   g_kal_exit_req, wpc, wl, spc, closing, refills, prodSeq, got,
                   acct>>
    /\ UNCHANGED rvars
    /\ UNCHANGED xvars

\* if (overruns) *overruns = m_overflow_count.exchange(0); return 0
FillXchg ==
    /\ life = "open" /\ cpc = "xchg"
    /\ IF cl.ov
       THEN LET x == fill_exchange(m_overflow_count)
            IN  /\ m_overflow_count' = x.count
                /\ acct' = [acct EXCEPT !.delivered = @ + x.overruns]
                /\ lastFill' = FillReturn(cl.n, 0, x.overruns,
                                          [cl EXCEPT !.wrote = TRUE])
       ELSE /\ lastFill' = FillReturn(cl.n, 0, 0, cl)
            /\ UNCHANGED <<m_overflow_count, acct>>
    /\ cpc' = "idle"
    /\ data_mutex' = "free"
    /\ UNCHANGED <<life, m_dev, cb, ring, m_rxbuf, streaming, g_kal_exit_req,
                   wpc, wl, cl, spc, closing, refills, prodSeq, got>>
    /\ UNCHANGED rvars
    /\ UNCHANGED xvars

(* ---------------- the consumer's use of the ring ---------------- *)

\* get_buffer()->read(dst, len): entry, the ring's internal mutex is taken
ReadLock(len) ==
    /\ MainIdle /\ cb
    /\ data_available(ring) > 0
    /\ cpc' = "read"
    /\ cl' = [NoFillCall EXCEPT !.n = len]
    /\ UNCHANGED <<life, m_dev, cb, ring, m_rxbuf, streaming, m_overflow_count,
                   data_mutex, g_kal_exit_req, wpc, wl, spc, closing,
                   refills, prodSeq, got, lastFill, acct>>
    /\ UNCHANGED rvars
    /\ UNCHANGED xvars

\* read(): the copy out of the ring, the cursor update and the unlock
Read ==
    /\ life = "open" /\ cpc = "read"
    /\ LET r == cb_read(ring, cl.n)
       IN  /\ ring' = r.ring
           /\ got' = got \o r.items
    /\ lastFill' = NoFill
    /\ cpc' = "idle"
    /\ UNCHANGED <<life, m_dev, cb, m_rxbuf, streaming, m_overflow_count,
                   data_mutex, g_kal_exit_req, wpc, wl, cl, spc, closing,
                   refills, prodSeq, acct>>
    /\ UNCHANGED rvars
    /\ UNCHANGED xvars

\* flush(): if (cb) cb->flush()
Flush ==
    /\ MainIdle
    /\ ring' = << >>
    /\ cpc' = "flush2"
    /\ lastFill' = NoFill
    /\ UNCHANGED <<life, m_dev, cb, m_rxbuf, streaming, m_overflow_count,
                   data_mutex, g_kal_exit_req, wpc, wl, cl, spc, closing,
                   refills, prodSeq, got, acct>>
    /\ UNCHANGED rvars
    /\ UNCHANGED xvars

\* flush(): m_overflow_count = 0
FlushCount ==
    /\ life = "open" /\ cpc = "flush2"
    /\ m_overflow_count' = 0
    /\ acct' = AcctRestart
    /\ cpc' = "idle"
    /\ UNCHANGED <<life, m_dev, cb, ring, m_rxbuf, streaming, data_mutex,
                   g_kal_exit_req, wpc, wl, cl, spc, closing, refills, prodSeq,
                   got, lastFill>>
    /\ UNCHANGED rvars
    /\ UNCHANGED xvars

(* ------- worker_thread: the conversion loop, one iteration per step ------- *)

\* a loop whose only bound is the end of the chunk
conv_more_nocap(p, end, count) == p < end

\* for (p = start; p < end && count < BATCH_SIZE; p += step)
conv_more(p, end, count) == p < end /\ count < BATCH_SIZE

\* iio_buffer_refill returned a chunk of chunk samples; p = start, count = 0
ConvBegin(chunk) ==
    /\ conv.pc \in {"idle", "done"}
    /\ conv.batches < MaxConvBatches
    /\ conv' = [conv EXCEPT !.chunk = chunk, !.p = 0, !.count = 0,
                            !.pc = "loop", !.i = 0, !.produced = 0,
                            !.batches = @ + 1]
    /\ UNCHANGED <<proc, rb, pre, tuneMark, cfg, hist, race>>
    /\ UNCHANGED rvars
    /\ UNCHANGED avars

\* one iteration: m_batch_buffer[count++] = complex(i * scale, q * scale)
ConvStep ==
    /\ conv.pc = "loop"
    /\ conv_more(conv.p, conv.chunk, conv.count)
    /\ conv' = [conv EXCEPT !.p = @ + 1, !.count = @ + 1]
    /\ UNCHANGED <<proc, rb, pre, tuneMark, cfg, hist, race>>
    /\ UNCHANGED rvars
    /\ UNCHANGED avars

\* the loop ends; m_resampler->process(m_batch_buffer, count, ...) is called
ConvHand ==
    /\ conv.pc = "loop"
    /\ ~conv_more(conv.p, conv.chunk, conv.count)
    /\ conv' = [conv EXCEPT !.pc = "handed"]
    /\ UNCHANGED <<proc, rb, pre, tuneMark, cfg, hist, race>>
    /\ UNCHANGED rvars
    /\ UNCHANGED avars

\* process(m_batch_buffer, count, out_buf, BATCH_SIZE): the next ConvStride
\* iterations of its loop, which ends at i = count or at the capacity break
ConvProcess ==
    /\ conv.pc = "handed"
    /\ LET r == process_loop(conv.st, conv.i,
                             Min(conv.i + ConvStride, conv.count),
                             BATCH_SIZE, conv.produced)
       IN  conv' = [conv EXCEPT
                      !.st = r.st, !.i = r.pushed, !.produced = r.produced,
                      !.pc = IF r.pushed >= conv.count
                                \/ (r.pushed > conv.i /\ r.produced >= BATCH_SIZE)
                             THEN "done" ELSE "handed"]
    /\ UNCHANGED <<proc, rb, pre, tuneMark, cfg, hist, race>>
    /\ UNCHANGED rvars
    /\ UNCHANGED avars

ConvNext ==
    \/ \E chunk \in ConvChunks : ConvBegin(chunk)
    \/ ConvStep
    \/ ConvHand
    \/ ConvProcess

SpecConv == Init /\ [][ConvNext]_vars

(* ---------------- the source adapter as a whole ---------------- *)

WorkerNext ==
    \/ WLoop
    \/ WRefillErr
    \/ \E chunk \in Chunks : WRefill(chunk)
    \/ WTryLockOk
    \/ WTryLockFail
    \/ WWrite
    \/ WAccount
    \/ WUnlock

FillNext ==
    \/ FillLock
    \/ FillChkExit
    \/ FillChkData
    \/ FillWake
    \/ FillPost
    \/ FillXchg

StopNext ==
    \/ StopReturn
    \/ StopJoin
    \/ StopDestroy
    \/ StopNotify
    \/ CloseTail

MainNext ==
    \/ Open
    \/ \E dev \in BOOLEAN : OpenFail(dev)
    \/ \E ok \in BOOLEAN : StartCall(ok)
    \/ \E n \in FillSizes, ov \in BOOLEAN, ok \in BOOLEAN : FillCall(n, ov, ok)
    \/ \E len \in ReadSizes : ReadLock(len)
    \/ Read
    \/ Flush
    \/ FlushCount
    \/ StopCall
    \/ CloseCall
    \/ SetExit

Next == WorkerNext \/ FillNext \/ StopNext \/ MainNext

Spec == Init /\ [][Next]_vars

\* the source under a main task that also retunes, at any time
NextTune ==
    \/ Next
    \/ \E ok \in BOOLEAN : Tune(ok)

SpecTune == Init /\ [][NextTune]_vars

\* the source under a main task that only fills, stops and raises the exit
\* flag, with fill() also asked for more samples than the ring holds and the
\* driver also handing over a chunk whose outputs fill the ring
NextBig ==
    \/ WorkerNext
    \/ WRefill(BigChunk)
    \/ FillNext
    \/ StopReturn
    \/ StopJoin
    \/ StopDestroy
    \/ StopNotify
    \/ Open
    \/ \E n \in FillSizes \cup {BigFill}, ov \in BOOLEAN, ok \in BOOLEAN :
           FillCall(n, ov, ok)
    \/ StopCall
    \/ SetExit

SpecBig == Init /\ [][NextBig]_vars

\* the source under a main task that also calls start() on a streaming source
NextApi ==
    \/ Next
    \/ \E ok \in BOOLEAN : StartAnyCall(ok)
    \/ WRefillNull

SpecApi == Init /\ [][NextApi]_vars

\* the worker's steps other than the driver's blocking refill
WorkerLocal ==
    \/ WLoop
    \/ WTryLockOk
    \/ WTryLockFail
    \/ WWrite
    \/ WAccount
    \/ WUnlock

\* Scheduling: every thread that can take a step eventually takes it, and a
\* thread blocked on data_mutex gets it if it is free again and again. Nothing
\* is assumed of the driver's refill, of signals or of the main task's calls.
FairSpec ==
    /\ Spec
    /\ WF_vars(WorkerLocal)
    /\ WF_vars(FillChkExit \/ FillChkData \/ FillPost \/ FillXchg)
    /\ WF_vars(Read)
    /\ SF_vars(FillLock \/ FillWake)
    /\ WF_vars(StopNext)

\* the driver's refill returns, with data or with an error
WRefillReturns ==
    \/ WRefillErr
    \/ \E chunk \in Chunks : WRefill(chunk)

\* the worker loop, fill(), the ring read and flush, and stop() on an open
\* source
NextLock ==
    \/ WorkerNext
    \/ FillNext
    \/ StopReturn
    \/ StopJoin
    \/ StopDestroy
    \/ StopNotify
    \/ Open
    \/ \E n \in FillSizes, ov \in BOOLEAN, ok \in BOOLEAN : FillCall(n, ov, ok)
    \/ \E len \in ReadSizes : ReadLock(len)
    \/ Read
    \/ Flush
    \/ FlushCount
    \/ StopCall

\* every task that can take a step eventually takes one, a task waiting for
\* data_mutex gets it when it is free often enough, and the driver's refill
\* returns
FairLockSpec ==
    /\ Init /\ [][NextLock]_vars
    /\ WF_vars(WorkerLocal)
    /\ WF_vars(WRefillReturns)
    /\ WF_vars(FillChkExit \/ FillChkData \/ FillPost \/ FillXchg)
    /\ WF_vars(Read \/ FlushCount)
    /\ SF_vars(FillLock \/ FillWake)
    /\ WF_vars(StopReturn \/ StopJoin \/ StopDestroy \/ StopNotify)

(* ---------------- claims about the resampler ---------------- *)

\* the documented output sizing: ceil(in_count * 13 / 120)
DocCap(n) == (n * S2_INTERP + WinLen - 1) \div WinLen

\* C1: from any state between process() calls, 120 further inputs fed while the
\* output capacity is never reached give exactly 13 outputs and restore
\* s1_index and s2_phase_state.
C1_RatioLaw ==
    (win.on /\ win.fed = WinLen) =>
        /\ win.out = S2_INTERP
        /\ rs.s1_index = win.s1_index0
        /\ rs.s2_phase_state = win.phase0

\* a window of 120 inputs split over several calls, started in mid-cycle
C1_Witness ==
    /\ win.on /\ win.fed = WinLen
    /\ call.in_count < WinLen
    /\ win.s1_index0 = 3
    /\ win.phase0 = S2_INTERP

\* C2: a process() call whose out_cap is at least ceil(in_count * 13 / 120)
\* pushes all in_count inputs into Stage 1.
C2_NoInputLoss ==
    (call.in_count > 0 /\ call.out_cap >= DocCap(call.in_count)) =>
        call.pushed = call.in_count

\* C17: right after reset() every mutable field is as in a fresh resampler:
\* counter, heads and phase are 0 and no history entry holds a sample; this
\* also holds for a reset() of a resampler that was just reset.
C17_ResetFresh ==
    pre.valid =>
        /\ rs.s1_index = 0 /\ rs.s1_head = 0 /\ rs.s1_filled = 0
        /\ rs.s2_head = 0 /\ rs.s2_phase_state = 0 /\ rs.s2_filled = 0
        /\ nin = 0

\* reset() has run on a resampler in mid-cycle whose Stage-1 history was full
C17_Witness ==
    /\ pre.valid
    /\ pre.st.s1_filled = S1_TAPS /\ pre.st.s2_filled > S2_INTERP
    /\ pre.st.s1_index # 0 /\ pre.st.s2_phase_state # 0
    /\ pre.st.s1_head # 0 /\ pre.st.s2_head # 0

(* ---------------- claims about the source adapter ---------------- *)

\* C3: a worker iteration that produced p > 0 samples either got data_mutex,
\* appended w <= p samples and raised overflow_count by p - w, or did not get
\* it, appended nothing and raised overflow_count by p.
C3_BatchAccounting ==
    (wpc = "loop" /\ wl.produced > 0) =>
        /\ wl.path \in {"locked", "dropped"}
        /\ wl.path = "locked" =>
               /\ wl.appended <= wl.produced
               /\ wl.counted = wl.produced - wl.appended
        /\ wl.path = "dropped" =>
               /\ wl.appended = 0
               /\ wl.counted = wl.produced
        /\ wl.produced = wl.appended + wl.counted

\* a batch that was written in part
C3_Witness ==
    /\ wpc = "loop"
    /\ wl.path = "locked"
    /\ 0 < wl.appended /\ wl.appended < wl.produced

\* C4: since the last start()/flush(), the values delivered through *overruns
\* plus the current overflow_count equal the samples the worker produced and
\* did not append (taken when the worker is not between a short write and
\* its count).
C4_OverflowExact ==
    (wpc # "account") => acct.delivered + m_overflow_count = acct.dropped

\* a fill() has just delivered the drops of a batch the worker dropped while
\* that fill() held data_mutex
C4_Witness ==
    /\ lastFill.valid /\ lastFill.ret = 0 /\ lastFill.overruns > 0
    /\ m_overflow_count = 0
    /\ wpc = "loop" /\ wl.path = "dropped"

\* C5: a fill(n) that returned 0 saw data_available >= n at its last check and
\* never saw streaming false, and at least n samples stay readable until the
\* consumer itself reads or flushes.
C5_FillSuccess ==
    (lastFill.valid /\ lastFill.ret = 0) =>
        /\ lastFill.sawAvail
        /\ ~lastFill.sawStop
        /\ data_available(ring) >= lastFill.n

\* fill() has returned 0 and the worker is about to write the next batch
C5_Witness ==
    /\ lastFill.valid /\ lastFill.ret = 0
    /\ wpc = "write"

\* C6: the samples the consumer has read are a subsequence of the produced
\* samples 1, 2, ... in production order.
C6_ProductionOrder ==
    /\ \A i \in 1..Len(got) : got[i] \in 1..prodSeq
    /\ \A i, j \in 1..Len(got) : i < j => got[i] < got[j]

\* the consumer has read samples on both sides of a dropped one
C6_Witness ==
    \E i \in 1..(Len(got) - 1) : got[i + 1] > got[i] + 1

\* C7: after the worker left its loop on a refill error, a fill() waiting for
\* more samples than the ring holds eventually returns -1.
C7_IoErrorShutdown ==
    (wl.path = "ioerr" /\ cpc = "wait" /\ data_available(ring) < cl.n)
        ~> (cpc = "idle" /\ lastFill.valid /\ lastFill.ret = -1)

C9_StopWakesFill ==
    /\ (cpc = "wait" /\ ~streaming)
           ~> (cpc = "idle" /\ lastFill.valid /\ lastFill.ret = -1)
    /\ [](lastFill.valid /\ lastFill.ret = 0 => ~lastFill.sawStop)

\* stop() has cleared streaming and joins the worker while fill() waits
C9_Witness ==
    /\ cpc = "wait" /\ ~streaming
    /\ spc = "join" /\ ~closing
    /\ wpc = "refill"

\* C10: stop() clears streaming, then joins the worker, then destroys the
\* driver buffer, then notifies: the buffer is destroyed only with the worker
\* joined, and at the return of stop() no worker runs, streaming is false and
\* m_rxbuf is null.
C10_StopOrder ==
    /\ spc = "join" => ~streaming
    /\ spc = "destroy" => ~streaming /\ wpc = "none"
    /\ spc = "notify" => ~streaming /\ wpc = "none" /\ ~m_rxbuf
    /\ spc = "close" => wpc = "none"

\* stop() is about to return after it joined a worker that had refilled
C10_Witness ==
    /\ spc = "notify" /\ ~closing
    /\ refills > 0
    /\ cpc = "wait"

\* C11: the worker never waits for a lock the consumer holds: it is never at
\* its ring write while the consumer's read() holds the ring's internal mutex
\* (data_mutex is only ever tried, never waited for).
C11_ProducerNeverBlocks ==
    ~(wpc = "write" /\ cb /\ m_mutex = "consumer")

\* C12: every sample of the chunk the refill returned is converted and handed
\* to process(): the count handed over is the chunk's sample count.
C12_WholeChunk ==
    conv.pc = "handed" => conv.count = conv.chunk

\* C18: every sample appended to the ring after a successful tune() returned
\* was produced after the reset of that tune(), hence from inputs that
\* entered the resampler after it.
C18_NoOldTransient ==
    [][(tuneMark # NoTune /\ Len(ring') > Len(ring)) =>
           \A k \in (Len(ring) + 1)..Len(ring') : ring'[k] > tuneMark]_vars

(* ---------------- claims about the ring buffer ---------------- *)

\* C19: in non-overwrite mode, under writes and reads only, the items read so
\* far are a prefix of the items the writes accepted, in the same order, and
\* data_available is the number accepted minus the number read.
C19_RoundTrip ==
    (rb.pc = "ready" /\ rb.plain) =>
        /\ Len(rb.returned) <= Len(rb.accepted)
        /\ rb.returned = SubSeq(rb.accepted, 1, Len(rb.returned))
        /\ rb_data_available(rb) = Len(rb.accepted) - Len(rb.returned)

\* reads have returned items written on both sides of the physical wrap,
\* after a write that was cut short by a full ring
C19_Witness ==
    /\ rb.pc = "ready" /\ rb.plain
    /\ Len(rb.returned) > RbLen
    /\ Len(rb.accepted) < rb.offered

LastItems(q, k) == SubSeq(q, Len(q) - k + 1, Len(q))

\* the items a ring of the given capacity holds after overwriting writes only
OverwriteHolds(cap) ==
    rb_items(rb) = LastItems(rb.accepted, Min(Len(rb.accepted), cap))

\* C21 as stated: an overwrite-mode write takes all n items, and a ring
\* constructed for buf_len items keeps the newest buf_len of them (the ring
\* constructed for 8 items gives [3..10] back after [1..10] was written).
C21_OverwriteAsConstructed ==
    (rb.pc = "ready" /\ rb.m_overwrite) =>
        /\ rb.last.op = "write" => rb.last.ret = rb.last.n
        /\ rb.wonly => OverwriteHolds(rb.req)

\* C21 amended: an overwrite-mode write takes all n items, and the ring keeps
\* the newest m_buf_len of them, m_buf_len being the requested size rounded up
\* to the mapping granularity: a ring constructed for fewer items than one
\* granule holds discards nothing until the whole granule is full.
C21_OverwriteRounded ==
    (rb.pc = "ready" /\ rb.m_overwrite) =>
        /\ rb.last.op = "write" => rb.last.ret = rb.last.n
        /\ rb.wonly => OverwriteHolds(rb_round(rb.req * RbItem) \div RbItem)

\* a ring constructed for fewer items than it holds has taken more items than
\* it holds in overwriting writes, the last of them larger than the capacity
C21_Witness ==
    /\ rb.pc = "ready" /\ rb.m_overwrite /\ rb.wonly
    /\ rb.req < RbLen
    /\ rb.last.op = "write" /\ rb.last.n > RbLen /\ rb.last.before # << >>
    /\ rb_data_available(rb) = RbLen

\* C22: in non-overwrite mode write(n) returns min(n, space_available),
\* appends exactly that many items and leaves the buffered ones as they were
\* (0 when full); read on an empty ring returns 0 and changes nothing; peek on
\* an empty ring reports length 0.
C22_NeverFails ==
    (rb.pc = "ready" /\ ~rb.m_overwrite) =>
        /\ rb.last.op = "write" =>
              /\ rb.last.ret = Min(rb.last.n, RbLen - Len(rb.last.before))
              /\ rb_items(rb) = rb.last.before \o
                    [k \in 1..rb.last.ret |-> rb.offered - rb.last.n + k]
        /\ (rb.last.op = "read" /\ rb.last.before = << >>) =>
              (rb.last.ret = 0 /\ rb_items(rb) = << >>)
        /\ (rb.last.op = "peek" /\ rb.last.before = << >>) => rb.last.ret = 0

\* a write to a full ring has returned 0 after an earlier one was cut short,
\* and a read has found the ring empty before that
C22_Witness ==
    /\ rb.pc = "ready" /\ ~rb.m_overwrite
    /\ rb.last.op = "write" /\ rb.last.ret = 0 /\ rb.last.n > 0
    /\ Len(rb.last.before) = RbLen
    /\ Len(rb.accepted) + rb.last.n < rb.offered

(* ---------------- claims about the configuration calls ---------------- *)

\* C23: a sampling-rate write rejected in open(), a hardware-gain write
\* rejected in set_gain() and a frequency write rejected in tune() each make
\* the call return a negative value.
C23_ConfigErrorsReported ==
    /\ (cfg.last.op = "open" /\ "sampling_frequency" \in cfg.last.rejected)
          => cfg.last.ret < 0
    /\ (cfg.last.op = "set_gain" /\ "hardwaregain" \in cfg.last.rejected)
          => cfg.last.ret < 0
    /\ (cfg.last.op = "tune" /\ "frequency" \in cfg.last.rejected)
          => cfg.last.ret < 0

\* a fill() has returned -1
FillFailed == lastFill.valid /\ lastFill.ret = -1

\* the step on which a fill() returns -1
FillFails == lastFill' # lastFill /\ lastFill'.valid /\ lastFill'.ret = -1

\* C24 as stated: a fill() that returns -1 has not stored to *overruns, has not
\* cleared overflow_count and has not changed the ring.
C24_FailedFillReportsNothing ==
    [][FillFails =>
          /\ ~lastFill'.wrote /\ lastFill'.lost = 0
          /\ m_overflow_count' = m_overflow_count /\ ring' = ring]_vars

\* C24 amended: a fill() that returns -1 has not stored to *overruns and has not
\* changed the ring; it has left overflow_count alone unless it found
\* streaming false on entry: the start() it then calls zeroes the counter
\* before the wait, whatever fill() returns afterwards.
C24_FailedFillKeepsCount ==
    [][FillFails =>
          /\ ~lastFill'.wrote /\ (lastFill'.lost > 0 => lastFill'.restarted)
          /\ m_overflow_count' = m_overflow_count /\ ring' = ring]_vars

\* a fill() entered after a stop() that left drops counted has restarted the
\* stream and returned -1 with those drops discarded
C24_Witness ==
    /\ FillFailed /\ lastFill.lost > 0 /\ lastFill.restarted
    /\ m_overflow_count = 0

\* everything of the source but the position of stop()
StopFrame ==
    <<life, m_dev, cb, ring, m_rxbuf, streaming, m_overflow_count, data_mutex,
      g_kal_exit_req, wpc, wl, cpc, cl, closing, refills, prodSeq, got,
      lastFill, acct, rs>>

\* C25: a stop() that finds streaming false goes straight to its return 0: no
\* join, no buffer destruction, no notification, and no field changes.
C25_DoubleStopNoop ==
    [][/\ (spc = "idle" /\ spc' # "idle" /\ ~streaming /\ ~closing') =>
            (spc' = "ret0" /\ UNCHANGED StopFrame)
       /\ (spc = "ret0" /\ spc' # "ret0") =>
            (spc' = "idle" /\ UNCHANGED StopFrame)]_vars

\* a second stop() is returning after the first one joined the worker and
\* destroyed the driver buffer
C25_Witness ==
    /\ spc = "ret0" /\ ~streaming
    /\ refills > 0 /\ wpc = "none" /\ ~m_rxbuf

(* ---------------- claims about one process() call ---------------- *)

\* the call has returned without ever reaching its output capacity
Uncapped == proc.pc = "done" /\ proc.out_produced < proc.out_cap

\* 120 * outputs - 13 * inputs of the call
RatioErr == WinLen * proc.out_produced - S2_INTERP * proc.in_count

\* C13 as stated: a call of N >= 120 inputs that never reaches its capacity
\* gives E outputs with 13N - 120 <= 120E <= 13N + 120.
C13_RatioBound ==
    (Uncapped /\ proc.in_count >= WinLen) =>
        (-WinLen <= RatioErr /\ RatioErr <= WinLen)

\* the largest |120E - 13N|: 13 * 4 from the Stage-1 counter at entry plus
\* 5 * 23 from the Stage-2 phase at entry, 167 in all
RatioSlack ==
    S2_INTERP * (S1_DECIMATION - 1) + S1_DECIMATION * (S2_DECIM - 1)

\* C13 amended: 13N - 167 <= 120E <= 13N + 167 from any state between calls
\* (so E is within 2 of 13N/120), and within 120 from a reset resampler.
C13_RatioBoundWide ==
    (Uncapped /\ proc.in_count >= WinLen) =>
        /\ -RatioSlack <= RatioErr /\ RatioErr <= RatioSlack
        /\ proc.st0 = ResetState => (-WinLen <= RatioErr /\ RatioErr <= WinLen)

\* a call of 126 inputs, entered with s1_index = 4 and s2_phase_state = 0,
\* has returned more than 13N/120 + 1 outputs
C13_Witness ==
    /\ Uncapped /\ proc.in_count >= WinLen
    /\ proc.st0.s1_index = S1_DECIMATION - 1 /\ proc.st0.s2_phase_state = 0
    /\ RatioErr > WinLen

\* C14 as stated: one residue r, fixed by the entry state, gives the output
\* count floor((13N + r) / 120) for every input length N.
C14_ResidueLaw ==
    Uncapped =>
        \E r \in 0..(WinLen - 1) :
            /\ proc.out_produced = (S2_INTERP * proc.in_count + r) \div WinLen
            /\ \A n \in LawCounts :
                   process(proc.st0, n, BATCH_SIZE).produced
                       = (S2_INTERP * n + r) \div WinLen

\* C14 amended: the output count is
\* floor((13 * floor((N + s1_index) / 5) + 23 - s2_phase_state) / 24),
\* with s1_index and s2_phase_state taken at entry.
C14_CountLaw ==
    Uncapped =>
        proc.out_produced =
            (S2_INTERP * ((proc.in_count + proc.st0.s1_index) \div S1_DECIMATION)
               + (S2_DECIM - 1) - proc.st0.s2_phase_state) \div S2_DECIM

\* a long call entered in mid-cycle has returned below its capacity
C14_Witness ==
    /\ Uncapped /\ proc.in_count > WinLen
    /\ proc.st0.s1_index = 2 /\ proc.st0.s2_phase_state = S2_DECIM - 1
    /\ proc.out_produced > S2_INTERP

\* C15: throughout a call out_produced <= out_cap, and the slots written so
\* far are 0, 1, ..., out_produced - 1 in this order, each below out_cap.
C15_NoOverrun ==
    (proc.pc \in {"loop", "done"}) =>
        /\ proc.out_produced <= proc.out_cap
        /\ Len(proc.slots) = proc.out_produced
        /\ \A k \in 1..Len(proc.slots) :
               proc.slots[k] = k - 1 /\ proc.slots[k] < proc.out_cap

\* a call has filled its two output slots and returned with inputs left over
C15_Witness ==
    /\ proc.pc = "done"
    /\ proc.out_cap > 0 /\ proc.out_produced = proc.out_cap
    /\ proc.pushed < proc.in_count

\* C16: when the output count reaches out_cap after input i was pushed, the
\* call returns with i + 1 inputs pushed and in the state a call given only
\* the inputs 0..i returns in.
C16_LossyPolicy ==
    (proc.pc = "done" /\ proc.full_at # -1) =>
        /\ proc.pushed = proc.full_at + 1
        /\ proc.st = process(proc.st0, proc.full_at + 1, proc.out_cap).st

\* a call of 139 inputs with two output slots has returned
C16_Witness ==
    /\ proc.pc = "done" /\ proc.full_at # -1
    /\ proc.in_count > WinLen /\ proc.out_cap > 1
    /\ proc.pushed < S2_DECIM

(* ---------------- claims about the Stage-2 phase ---------------- *)

\* C26 as stated: after every completed push_stage2, and so at every return of
\* process(), 0 <= s2_phase_state < 13.
C26_PhaseBelowInterp ==
    (0 <= proc.st.s2_phase_state /\ proc.st.s2_phase_state < S2_INTERP)

\* C26 amended: after every completed push_stage2 0 <= s2_phase_state < 24;
\* a value below 13 means the next Stage-2 input gives an output, a value in
\* [13, 24) that it gives none.
C26_PhaseBelowDecim ==
    (0 <= proc.st.s2_phase_state /\ proc.st.s2_phase_state < S2_DECIM)

\* the call has pushed inputs and the phase left by the last Stage-2 push is
\* 13 or more
C26_Witness ==
    /\ proc.pushed > 0 /\ proc.st.s2_filled > 0
    /\ proc.st.s2_phase_state >= S2_INTERP

\* C27: from reset and with room for every output, the n-th output
\* (n = 0, 1, ...) is emitted on the arrival of Stage-2 input floor(24n/13)
\* (0-based) and is computed with polyphase branch 24n mod 13.
C27_EmissionSchedule ==
    \A i \in 1..Len(hist.emits) :
        /\ hist.emits[i].input = (S2_DECIM * (i - 1)) \div S2_INTERP
        /\ hist.emits[i].branch = (S2_DECIM * (i - 1)) % S2_INTERP

\* more than 13 outputs have been emitted, the phase pattern has come round
C27_Witness ==
    /\ Len(hist.emits) > S2_INTERP
    /\ hist.emits[Len(hist.emits)].branch = 0

(* ---------------- claims about the filter pairing ---------------- *)

\* the sample of age d when the newest is number at (0 before the first)
Aged(at, d) == IF at - d > 0 THEN at - d ELSE 0

\* the prototype coefficient of branch p for the sample of age a
BankCoeff(p, a) ==
    IF p + S2_PHASES * a < S2_TAPS_TOTAL THEN p + S2_PHASES * a ELSE ZeroCoeff

\* the (branch, entry) slots of the bank
BankSlots == (0..(S2_PHASES - 1)) \X (0..(S2_TAPS_PER_PHASE - 1))

\* the slots that hold zero padding
BankZeros == {sl \in BankSlots : s2_coeffs_poly[sl[1]][sl[2]] = ZeroCoeff}

\* every prototype index is held by exactly one slot: the slots that are not
\* padding are as many as the prototype is long and hold all of its indices
BankOnce ==
    /\ Cardinality(BankSlots \ BankZeros) = S2_TAPS_TOTAL
    /\ {s2_coeffs_poly[sl[1]][sl[2]] : sl \in BankSlots \ BankZeros}
          = 0..(S2_TAPS_TOTAL - 1)

\* C28: in every Stage-2 dot product, computed with branch p, the a-th most
\* recent Stage-2 input (a = 0 the newest) is multiplied by prototype
\* coefficient C[p + 13a] if p + 13a < 729 and by 0 otherwise; every
\* prototype index is held by exactly one slot and 12 slots are padding.
C28_BankLayout ==
    /\ BankOnce
    /\ Cardinality(BankZeros) = S2_PHASES * S2_TAPS_PER_PHASE - S2_TAPS_TOTAL
    /\ Cardinality(BankZeros) = 12
    /\ hist.s2_dot # << >> =>
          \A a \in 0..(S2_TAPS_PER_PHASE - 1) :
              LET e == hist.s2_dot[S2_TAPS_PER_PHASE - 1 - a]
              IN  /\ e.x = Aged(hist.s2_at, a)
                  /\ e.c = BankCoeff(hist.s2_branch, a)

\* an output has been computed with the last branch on a full Stage-2
\* history: its oldest sample met the zero padding
C28_Witness ==
    /\ hist.s2_dot # << >>
    /\ hist.s2_at > S2_TAPS_PER_PHASE
    /\ hist.s2_branch = S2_PHASES - 1
    /\ hist.s2_dot[0].x > 0 /\ hist.s2_dot[0].c = ZeroCoeff

\* C29: whenever Stage 1 emits, the window s1_history[s1_head..s1_head+61)
\* holds the 61 most recent inputs oldest first (zeros where fewer arrived
\* since reset), and the dot product multiplies the input of age d by
\* S1_COEFFS[d] for every d in [0, 61).
C29_Stage1Pairing ==
    hist.s1_dot # << >> =>
        \A d \in 0..(S1_TAPS - 1) :
            LET e == hist.s1_dot[S1_TAPS - 1 - d]
            IN  /\ e.x = Aged(hist.s1_at, d)
                /\ e.c = d

\* Stage 1 has just emitted on a history that has wrapped, its window lying
\* across the end of the first copy
C29_Witness ==
    /\ hist.s1_dot # << >>
    /\ hist.s1_at = hist.n /\ hist.n > 2 * S1_TAPS
    /\ hist.s1_head > 0
    /\ hist.s1_dot[0].x > 0

(* ---------------- claims about the Stage-1 cadence ---------------- *)

\* C30: s1_index is the number of inputs consumed since reset modulo 5, and
\* after c consumed inputs Stage 2 has received floor(c / 5) samples, however
\* the inputs were split across process() calls (s2_filled counts the
\* Stage-2 samples received, up to the length of the Stage-2 history).
C30_Cadence ==
    /\ rs.s1_index = nin % S1_DECIMATION
    /\ rs.s2_filled = Min(nin \div S1_DECIMATION, S2_TAPS_PER_PHASE)

\* a call that began and ended between two Stage-1 outputs has returned
C30_Witness ==
    /\ call.pushed > S1_DECIMATION
    /\ nin > call.pushed
    /\ (nin - call.pushed) % S1_DECIMATION # 0
    /\ nin % S1_DECIMATION # 0

\* C33: each Stage-2 input gives 0 or 1 outputs, from every reachable phase,
\* and two consecutive Stage-2 inputs that both found room for an output never
\* both give 0.
C33_AtMostOneOutput ==
    /\ \A k \in 1..Len(proc.s2log) : proc.s2log[k].out \in {0, 1}
    /\ \A k \in 1..(Len(proc.s2log) - 1) :
          (proc.s2log[k].room /\ proc.s2log[k + 1].room) =>
              proc.s2log[k].out + proc.s2log[k + 1].out >= 1

\* a call entered with the phase at its largest value has gone through an
\* input without output and more than 13 inputs after it
C33_Witness ==
    /\ proc.st0.s2_phase_state = S2_DECIM - 1
    /\ Len(proc.s2log) > S2_INTERP
    /\ proc.s2log[1].out = 0 /\ proc.s2log[1].room

\* the loop iteration of process() that hands a sample to Stage 2, in a call
\* with out_cap >= 1
FeedsWithCap ==
    /\ proc.pc = "loop" /\ proc' # proc
    /\ proc.i < proc.in_count
    /\ feeds_stage2(proc.st)
    /\ proc.out_cap >= 1

\* C40: in calls with out_cap >= 1 the capacity check of the emission loop
\* never fires: every Stage-2 input finds room, gives 0 or 1 outputs, leaves
\* the phase 13 lower (24 higher first if it gave an output) and in [0, 24),
\* and an output is computed with a branch in [0, 13).
C40_PhaseUpdateCompletes ==
    [][FeedsWithCap =>
          LET e == proc'.out_produced - proc.out_produced
          IN  /\ proc.out_produced < proc.out_cap
              /\ e \in {0, 1}
              /\ e = 1 <=> proc.st.s2_phase_state < S2_INTERP
              /\ e = 1 => proc.st.s2_phase_state >= 0
              /\ proc'.st.s2_phase_state
                    = proc.st.s2_phase_state + S2_DECIM * e - S2_INTERP
              /\ 0 <= proc'.st.s2_phase_state
              /\ proc'.st.s2_phase_state < S2_DECIM]_vars

\* a call with out_cap of 2 has ended on its second output with inputs left
C40_Witness ==
    /\ proc.pc = "done" /\ proc.out_cap >= 1
    /\ proc.out_produced = proc.out_cap
    /\ proc.pushed < proc.in_count
    /\ Len(proc.s2log) > 1

\* a call with out_cap = 0 has returned from push_stage2 at the capacity
\* check, the phase left as it was
C40_EarlyReturn ==
    /\ proc.pc = "done" /\ proc.out_cap = 0
    /\ Len(proc.s2log) = 1 /\ ~proc.s2log[1].room
    /\ proc.st.s2_phase_state = proc.st0.s2_phase_state

(* ---------------- claims about fill() restarting the stream ---------------- *)

\* fill() passes its first test (ring buffer present) with streaming false
FillEntersStopped == cpc = "idle" /\ cpc' = "lock" /\ ~streaming

\* C36: a fill() entered with a ring buffer and streaming false first runs
\* start() (resampler reset, overflow count zeroed, and with the device
\* buffer created a new worker launched and streaming set); such a fill()
\* returns -1 only with the exit flag set or streaming false (start() failed,
\* or streaming was cleared again while it waited).
C36_FillAutoStarts ==
    [][/\ FillEntersStopped =>
             /\ cl'.restarted
             /\ IF m_dev
                THEN /\ rs' = ResetState /\ m_overflow_count' = 0
                     /\ IF m_rxbuf'
                        THEN streaming' /\ wpc' = "loop" /\ wl' = NoBatch
                        ELSE ~streaming' /\ wpc' = wpc
                ELSE ~streaming' /\ wpc' = wpc /\ rs' = rs
       /\ (FillFails /\ lastFill'.restarted /\ cb) =>
             (g_kal_exit_req \/ ~streaming)]_vars

\* a fill() after a stopped session has launched the worker again
C36_Witness ==
    /\ life = "open" /\ cpc # "idle" /\ cl.restarted /\ cl.lost > 0
    /\ streaming /\ wpc = "write"

(* ---------------- claims about an oversized fill() ---------------- *)

\* a fill() for more samples than the ring holds is in progress
BigFillWaiting ==
    /\ cpc \in {"lock", "chk_exit", "chk_data", "wait", "post", "xchg"}
    /\ cl.n > RingCap

\* C37: fill(n) with n larger than the ring capacity never returns 0: it
\* returns only -1, and only with the exit flag set or streaming false;
\* while it waits on a full ring the worker stores nothing and counts every
\* sample of every batch as overflow.
C37_OversizedFillNeverSucceeds ==
    [][/\ BigFillWaiting => cpc' # "xchg"
       /\ (lastFill' # lastFill /\ lastFill'.valid /\ lastFill'.n > RingCap) =>
             /\ lastFill'.ret = -1
             /\ ~cb \/ g_kal_exit_req \/ ~streaming
       /\ (BigFillWaiting /\ data_available(ring) = RingCap) =>
             /\ ring' = ring
             /\ (wpc = "write" /\ wpc' # wpc) =>
                   wpc' = "account" /\ wl'.written = 0
             /\ (wpc = "trylock" /\ wpc' = "loop") =>
                   m_overflow_count' = m_overflow_count + wl.produced
             /\ (wpc = "account" /\ wpc' # wpc /\ wl.written = 0) =>
                   m_overflow_count' = m_overflow_count + wl.produced]_vars

\* the worker has counted a whole batch as overflow while an oversized
\* fill() waits on the full ring
C37_Witness ==
    /\ BigFillWaiting /\ cpc = "wait" /\ data_available(ring) = RingCap
    /\ wpc = "unlock" /\ wl.written = 0 /\ wl.counted = wl.produced
    /\ wl.produced > 0

(* ---------------- claims about the two mutexes ---------------- *)

\* C38: no task waits forever on a lock. The worker holds data_mutex
\* whenever it takes the ring's mutex and the holder of the ring's mutex
\* never asks for data_mutex; fill() does not hold data_mutex while it
\* waits; and, the driver's refill returning, a fill() at the lock or in its
\* wait gets data_mutex, the worker at cb->write() gets the ring's mutex,
\* and stop() gets past its join.
C38_NoLockWaitsForever ==
    /\ [](wpc \in {"write", "account", "unlock"} => data_mutex = "worker")
    /\ [](cpc \in {"read", "wait", "lock"} => data_mutex # "consumer")
    /\ [](cpc \in {"chk_exit", "chk_data", "post", "xchg"} =>
             data_mutex = "consumer")
    /\ (cpc = "lock") ~> (cpc # "lock")
    /\ (cpc = "wait") ~> (cpc # "wait")
    /\ (wpc = "write") ~> (wpc # "write")
    /\ (spc = "join") ~> (spc # "join")

\* stop() joins while a fill() waits for data_mutex, which the worker
\* holds, the worker itself being at cb->write()
C38_Witness ==
    /\ spc = "join" /\ cpc = "lock" /\ wpc = "write" /\ data_mutex = "worker"

(* ---------------- claims about the worker's process() call ---------------- *)

\* 13 * n / 120 rounded up
DocYield(n) == (13 * n + 119) \div 120

\* C39: the worker calls process() with in_count <= BATCH_SIZE and
\* out_cap = BATCH_SIZE; from every resampler state the worker reaches the
\* outputs stay below out_cap, the loop ends with all in_count samples
\* pushed, and the returned count is at most ceil(in_count * 13 / 120) + 1.
C39_BatchNeverDropsInput ==
    /\ conv.pc \in {"handed", "done"} =>
          /\ conv.count <= BATCH_SIZE
          /\ conv.i <= conv.count
          /\ conv.produced < BATCH_SIZE
          /\ conv.produced <= DocYield(conv.i) + 1
    /\ conv.pc = "done" => conv.i = conv.count

\* a full batch of BATCH_SIZE samples has gone through process() from a
\* resampler state left by an earlier batch
C39_Witness ==
    /\ conv.pc = "done" /\ conv.batches = 2
    /\ conv.count = BATCH_SIZE /\ conv.i = BATCH_SIZE
    /\ conv.produced > 3549

(* ---------------- claims about the worker thread object ---------------- *)

\* C35: for every sequence of start(), stop(), fill() and close() calls of
\* the main task, no new worker is assigned to m_worker while the previous
\* one is still joinable (which ends the process in std::terminate).
C35_OneProducer == life # "aborted"

(* ---------------- claims about reset() against process() ---------------- *)

\* C34: under every interleaving of reset()'s assignments with the steps of
\* push_stage1 and push_stage2, s1_head stays in [0, 61) and s2_head in
\* [0, 57) between pushes, s2_phase_state never becomes negative, and every
\* index used into s2_coeffs_poly is in [0, 13).
C34_NoCorruption ==
    /\ race.pc = "idle" =>
          /\ race.s1_head \in 0..(S1_TAPS - 1)
          /\ race.s2_head \in 0..(S2_TAPS_PER_PHASE - 1)
    /\ race.s2_phase_state >= 0
    /\ race.branch \in 0..(S2_PHASES - 1)

(* ---------------- claims about the history arrays ---------------- *)

\* C31: after reset() and after every pushed sample, s1_history[k] =
\* s1_history[k + 61] for k in [0, 61) and s2_history[k] = s2_history[k + 57]
\* for k in [0, 57).
C31_DoubleStorage ==
    /\ \A k \in 0..(S1_TAPS - 1) :
          hist.s1_history[k] = hist.s1_history[k + S1_TAPS]
    /\ \A k \in 0..(S2_TAPS_PER_PHASE - 1) :
          hist.s2_history[k] = hist.s2_history[k + S2_TAPS_PER_PHASE]

\* both histories have wrapped: every entry holds a sample and the oldest
\* ones have been overwritten
C31_Witness ==
    /\ hist.m > S2_TAPS_PER_PHASE
    /\ \A k \in 0..(S2_TAPS_PER_PHASE - 1) : hist.s2_history[k] > 0
    /\ hist.s1_history[0] > S1_TAPS

\* C32: at every return of process() and reset(), s1_head is in [0, 61),
\* s2_head in [0, 57) and s1_index in [0, 5); every history write index is
\* below 122 (Stage 1) or 114 (Stage 2) and every convolution window
\* [head, head + taps) lies inside its history array.
C32_IndexRanges ==
    /\ hist.s1_head \in 0..(S1_TAPS - 1)
    /\ hist.s2_head \in 0..(S2_TAPS_PER_PHASE - 1)
    /\ hist.s1_index \in 0..(S1_DECIMATION - 1)
    /\ hist.s1_w \in 0..(2 * S1_TAPS - 1)
    /\ hist.s2_w \in 0..(2 * S2_TAPS_PER_PHASE - 1)
    /\ 0 <= hist.s1_win /\ hist.s1_win + S1_TAPS <= 2 * S1_TAPS
    /\ 0 <= hist.s2_win /\ hist.s2_win + S2_TAPS_PER_PHASE <= 2 * S2_TAPS_PER_PHASE

\* the last entry of the Stage-2 history has just been written and its head
\* has wrapped to 0, after a Stage-1 window that began inside the first copy
C32_Witness ==
    /\ hist.s2_w = 2 * S2_TAPS_PER_PHASE - 1 /\ hist.s2_head = 0
    /\ hist.s1_win > 0 /\ hist.n > 2 * S1_TAPS

====
